---- MODULE Spec2Model ----
(***************************************************************************)
(* A model of @nuwan-dev/github-stats: the contribution-calendar fetch     *)
(* (fetchContributionCalendar, mapCalendar) and the language-statistics    *)
(* fetch (fetchLanguageStats: repository pagination, language              *)
(* sub-pagination, filtering and aggregation).                             *)
(*                                                                         *)
(* An action is the code that runs between two suspension points (await)   *)
(* of an async function.  The GraphQL Transport (fetch) is the             *)
(* environment: each answer is drawn from a bounded set of responses.      *)
(***************************************************************************)
EXTENDS Integers, Sequences, FiniteSets, TLC

VARIABLES
    valIn,          \* assertNoGraphQLErrors: the errors array handed to it
    valOut,         \* assertNoGraphQLErrors: what it threw, if anything
    mapIn,          \* mapCalendar: the raw calendar handed to the mapper
    mapOut,         \* mapCalendar: the ContributionCalendar it returned
    cpc,            \* fetchContributionCalendar: position of the call
    cArgs,          \* fetchContributionCalendar: start, end, and the clock
    cRange,         \* fetchContributionCalendar: the resolved from / to
    cLog,           \* Transport calls issued by fetchContributionCalendar
    cResp,          \* the response fetchContributionCalendar received
    cOut,           \* outcome of fetchContributionCalendar
    gpc,            \* ContributionGraph: position of the call
    gProps,         \* ContributionGraph: which props it was given
    gOut,           \* ContributionGraph: what it rendered or threw
    viewCalendar,   \* ContributionGraphView: the calendar prop
    timeZone,       \* ContributionGraphView: the time zone of the browser
    monthLabels,    \* ContributionGraphView: useMemo(getMonthLabels(weeks))
    hovered,        \* ContributionGraphView: useState, the hovered cell
    pointer,        \* the cell of the heatmap the pointer is over, if any
    population,     \* the repositories the server holds for the user
    upc,            \* user-scoped fetchAllRepositories: position of the call
    uArgs,          \* user-scoped fetchAllRepositories: username and options
    uRepositories,  \* user-scoped fetchAllRepositories: the list collected
    uHasNextPage,   \* user-scoped fetchAllRepositories: loop variable
    uCursor,        \* user-scoped fetchAllRepositories: loop variable
    uLog,           \* Transport calls of the user-scoped fetchAllRepositories
    uOut,           \* outcome of the user-scoped fetchAllRepositories
    calls,          \* concurrent calls: the locals of each call in flight
    lpc,            \* fetchLanguageStats: position of the call
    lArgs,          \* fetchLanguageStats: username and options
    repositories,   \* fetchAllRepositories: the list collected so far
    hasNextPage,    \* fetchAllRepositories: loop variable
    cursor,         \* fetchAllRepositories: loop variable
    repoIdx,        \* enrichRepositoriesWithAllLanguages: the repository at hand
    extraEdges,     \* fetchRemainingRepoLanguages: edges
    langCursor,     \* fetchRemainingRepoLanguages: langCursor
    lLog,           \* Transport calls issued by fetchLanguageStats, in order
    lHist,          \* the answers the Transport gave to them, in order
    filteredRepositories,   \* fetchLanguageStats: the list it aggregates
    lOut,           \* outcome of fetchLanguageStats
    limit,          \* getTopLanguages: the limit it is called with
    tOut            \* outcome of getTopLanguages around the same call

graphVars == <<gpc, gProps, gOut>>

viewVars == <<viewCalendar, timeZone, monthLabels, hovered, pointer>>

userVars == <<population, upc, uArgs, uRepositories, uHasNextPage, uCursor,
              uLog, uOut>>

moreVars == <<viewVars, userVars, calls>>

calVars == <<valIn, valOut, mapIn, mapOut, cpc, cArgs, cRange, cLog, cResp, cOut,
             graphVars, moreVars>>

langVars == <<lpc, lArgs, repositories, hasNextPage, cursor, repoIdx,
              extraEdges, langCursor, lLog, lHist, filteredRepositories, lOut,
              limit, tOut>>

vars == <<calVars, langVars>>

---------------------------------------------------------------------------
(* Bounds of the model *)

MaxCount == 12      \* day counts range over 0..MaxCount
MaxCells == 3       \* a mapper input holds at most MaxCells days and week breaks
MaxDate == 2        \* dates range over 0..MaxDate (in years)
MaxErrors == 3      \* an errors list holds at most MaxErrors entries
MaxRepos == 2       \* the server lists at most MaxRepos repositories
MaxPages == 2       \* the finite server serves at most MaxPages repository pages
MaxLangPages == 1   \* and at most MaxLangPages further language pages per repository
MaxStatsRepos == 2  \* the tail of fetchLanguageStats is applied to lists this long
MaxLimit == 3       \* getTopLanguages is called with limits -1..MaxLimit, or none
MaxPopulation == 4      \* repositories the server holds for the user
MaxPageSize == 2        \* repositories on one page (first: 100 in the queries)
MaxWeeks == 3           \* weeks of a calendar handed to ContributionGraphView
MaxWeekDays == 2        \* cells of one week the pointer can enter
MaxCalls == 2           \* calls in flight at the same time
MaxHist == 3            \* answers one of the calls in flight receives
MaxSubPages == 2    \* language pages per repository of the server of the sub-paginator

---------------------------------------------------------------------------
(* Generic helpers *)

Max(a, b) == IF a > b THEN a ELSE b

Min(a, b) == IF a <= b THEN a ELSE b

SeqsUpTo(S, n) == UNION {[1..k -> S] : k \in 0..n}

---------------------------------------------------------------------------
(* Error messages are sequences of characters, so that the                 *)
(* case-insensitive substring test of the code is computed, not assumed.   *)

UpperToLower ==
    [c \in {"F", "O", "R", "B", "I", "D", "E", "N", "T", "U"} |->
        CASE c = "F" -> "f" [] c = "O" -> "o" [] c = "R" -> "r"
          [] c = "B" -> "b" [] c = "I" -> "i" [] c = "D" -> "d"
          [] c = "E" -> "e" [] c = "N" -> "n" [] c = "T" -> "t"
          [] c = "U" -> "u"]

\* String.prototype.toLowerCase
toLowerCase(s) ==
    [i \in 1..Len(s) |->
        IF s[i] \in DOMAIN UpperToLower THEN UpperToLower[s[i]] ELSE s[i]]

\* String.prototype.includes
includes(s, sub) ==
    \E i \in 0..(Len(s) - Len(sub)) :
        \A j \in 1..Len(sub) : s[i + j] = sub[j]

forbiddenWord == <<"f", "o", "r", "b", "i", "d", "d", "e", "n">>

MsgForbidden == <<"F", "o", "r", "b", "i", "d", "d", "e", "n">>
MsgFORBIDDEN == <<"4", "0", "3", " ", "F", "O", "R", "B", "I", "D", "D", "E", "N">>
MsgLower == <<"f", "o", "r", "b", "i", "d", "d", "e", "n", "!">>
MsgForbid == <<"F", "o", "r", "b", "i", "d">>
MsgNotFound == <<"N", "o", "t", " ", "f", "o", "u", "n", "d">>

Messages == {MsgForbidden, MsgFORBIDDEN, MsgLower, MsgForbid, MsgNotFound}

NoMessage == <<>>

\* The errors arrays a GraphQL envelope may carry (absent is the empty list:
\* the code treats a missing and an empty array alike).
ErrorLists == SeqsUpTo(Messages, MaxErrors)

\* The errors arrays the responses of the two pipelines carry in this model.
PipelineErrorLists ==
    {<<>>, <<MsgNotFound>>, <<MsgFORBIDDEN>>, <<MsgNotFound, MsgForbidden>>}

\* e.message?.toLowerCase().includes("forbidden")
mentionsForbidden(msg) == includes(toLowerCase(msg), forbiddenWord)

---------------------------------------------------------------------------
(* Thrown errors.  The code throws plain Error objects; the kind is the    *)
(* fixed text of the message, msg the upstream message embedded in it.     *)

Pending == [status |-> "pending"]

Failure(kind, msg) == [status |-> "failed", kind |-> kind, msg |-> msg]

Returned(value) == [status |-> "ok", value |-> value]

\* if (Array.isArray(result.errors) && result.errors.length > 0)
\*     throw new Error(`GitHub GraphQL Error: ${result.errors[0]?.message}`)
calendarErrorCheck(errors) ==
    IF Len(errors) > 0 THEN Failure("GraphQLError", errors[1]) ELSE Pending

---------------------------------------------------------------------------
(* Calendar Mapper *)

DayColor == "#216e39"

RawDay(i, c) == [date |-> i, contributionCount |-> c, color |-> DayColor]

\* LevelOf with strict comparisons: the boundary values 2, 5, 10 move up a level
LevelOfStrict(count) ==
    IF count = 0 THEN 0
    ELSE IF count < 2 THEN 1
    ELSE IF count < 5 THEN 2
    ELSE IF count < 10 THEN 3
    ELSE 4

\* if (count === 0) ... else if (count <= 2) ... else level = 4
LevelOf(count) ==
    IF count = 0 THEN 0
    ELSE IF count <= 2 THEN 1
    ELSE IF count <= 5 THEN 2
    ELSE IF count <= 10 THEN 3
    ELSE 4

MapDay(day) ==
    [date |-> day.date,
     count |-> day.contributionCount,
     level |-> LevelOf(day.contributionCount),
     color |-> day.color]

RECURSIVE SumDayCounts(_)
\* total += count, over the days of one week in traversal order
SumDayCounts(days) ==
    IF days = <<>> THEN 0
    ELSE days[1].contributionCount + SumDayCounts(Tail(days))

RECURSIVE SumWeekCounts(_)
\* total += count, over the weeks in traversal order
SumWeekCounts(weeks) ==
    IF weeks = <<>> THEN 0
    ELSE SumDayCounts(weeks[1].contributionDays) + SumWeekCounts(Tail(weeks))

\* raw.weeks ?? []
WeeksOrEmpty(raw) == IF raw.hasWeeks THEN raw.weeks ELSE <<>>

\* mapCalendar trusting the upstream totalContributions
mapCalendarUpstreamTotal(raw) ==
    LET weeksIn == WeeksOrEmpty(raw)
    IN  [weeks |->
            [w \in 1..Len(weeksIn) |->
                [days |->
                    [d \in 1..Len(weeksIn[w].contributionDays) |->
                        MapDay(weeksIn[w].contributionDays[d])]]],
         total |-> raw.totalContributions]

mapCalendar(raw) ==
    LET weeksIn == WeeksOrEmpty(raw)
    IN  [weeks |->
            [w \in 1..Len(weeksIn) |->
                [days |->
                    [d \in 1..Len(weeksIn[w].contributionDays) |->
                        MapDay(weeksIn[w].contributionDays[d])]]],
         total |-> SumWeekCounts(weeksIn)]

---------------------------------------------------------------------------
(* Inputs of the mapper: a raw calendar is written as a sequence of cells, *)
(* each a day count or a week break, so that every list of weeks (empty    *)
(* weeks included) with few days is drawn.                                 *)

WeekBreak == MaxCount + 1

RECURSIVE SplitWeeks(_, _, _)
SplitWeeks(cells, current, n) ==
    IF cells = <<>> THEN <<[contributionDays |-> current]>>
    ELSE IF cells[1] = WeekBreak
         THEN <<[contributionDays |-> current]>> \o SplitWeeks(Tail(cells), <<>>, n)
         ELSE SplitWeeks(Tail(cells), Append(current, RawDay(n, cells[1])), n + 1)

Cells(maxCount) == (0..maxCount) \cup {WeekBreak}

\* The upstream totalContributions may agree with the days or drift from them.
RawCalendarOf(weeks, drift) ==
    [hasWeeks |-> TRUE, weeks |-> weeks,
     totalContributions |-> SumWeekCounts(weeks) + drift]

\* The calendars without a week: the weeks list is missing or empty.
WeeklessCalendars(maxCount) ==
    {[hasWeeks |-> h, weeks |-> <<>>, totalContributions |-> t] :
        h \in BOOLEAN, t \in {0, maxCount}}

RawCalendars(maxCells, maxCount) ==
    WeeklessCalendars(maxCount)
    \cup {RawCalendarOf(SplitWeeks(cells, <<>>, 1), drift) :
            cells \in SeqsUpTo(Cells(maxCount), maxCells), drift \in {0, maxCount}}

---------------------------------------------------------------------------
(* Calendar Fetch Orchestrator *)

Dates == 0..MaxDate

YearLength == 1

NoDate == [given |-> FALSE, at |-> 0]

OptDates == {NoDate} \cup {[given |-> TRUE, at |-> d] : d \in Dates}

\* const to = end ? new Date(end) : new Date()
ResolveTo(end, now) == IF end.given THEN end.at ELSE now

\* const from = start ? new Date(start)
\*                    : new Date(new Date(to).setFullYear(to.getFullYear() - 1))
ResolveFrom(start, to) == IF start.given THEN start.at ELSE to - YearLength

\* RangeRejected refusing equal dates as well
RangeRejectedOrEqual(from, to) == from >= to

\* if (from > to) throw new Error("Start date must be before end date")
RangeRejected(from, to) == from > to

\* The calendars a response of the calendar query carries in this model.
PipelineCalendars == RawCalendars(1, 1)

CalendarData ==
    {[shape |-> s, calendar |-> [hasWeeks |-> FALSE, weeks |-> <<>>,
                                 totalContributions |-> 0]] :
        s \in {"noData", "noUser", "noCollection"}}
    \cup {[shape |-> "calendar", calendar |-> c] : c \in PipelineCalendars}

\* What fetch resolves with: the HTTP status and the body, which is a GraphQL
\* envelope {data?, errors?} unless it is not JSON at all.
CalendarResponses ==
    {[ok |-> o, json |-> FALSE, errors |-> <<>>,
      data |-> [shape |-> "noData",
                calendar |-> [hasWeeks |-> FALSE, weeks |-> <<>>,
                              totalContributions |-> 0]]] : o \in BOOLEAN}
    \cup
    {[ok |-> o, json |-> TRUE, errors |-> e, data |-> d] :
        o \in BOOLEAN, e \in PipelineErrorLists, d \in CalendarData}

NoResponse ==
    [ok |-> FALSE, json |-> FALSE, errors |-> <<>>,
     data |-> [shape |-> "noData",
               calendar |-> [hasWeeks |-> FALSE, weeks |-> <<>>,
                             totalContributions |-> 0]]]

\* fetchContributionCalendar up to its first await: the range is resolved and
\* checked, then the one request is handed to fetch.
StartCalendar(start, end, now) ==
    /\ cpc = "idle"
    /\ lpc = "idle"
    /\ gpc = "idle"
    /\ LET to == ResolveTo(end, now)
           from == ResolveFrom(start, to)
       IN  /\ cArgs' = [start |-> start, end |-> end, now |-> now]
           /\ cRange' = [from |-> from, to |-> to]
           /\ IF RangeRejected(from, to)
              THEN /\ cpc' = "failed"
                   /\ cOut' = Failure("InvalidRange", NoMessage)
                   /\ cLog' = cLog
              ELSE /\ cpc' = "awaitFetch"
                   /\ cOut' = cOut
                   /\ cLog' = Append(cLog, [from |-> from, to |-> to])
    /\ UNCHANGED <<valIn, valOut, mapIn, mapOut, cResp, langVars, moreVars>>

\* A call of fetchContributionCalendar by the user of the library
CallCalendar(start, end, now) ==
    /\ StartCalendar(start, end, now)
    /\ UNCHANGED graphVars

\* <div className="text-red-500">Error: Missing data or credentials.</div>
InlineError == [status |-> "rendered", element |-> "error"]

\* <ContributionGraphView calendar={data} {...rest} />
GraphView(data) == [status |-> "rendered", element |-> "view", calendar |-> data]

\* The calendar a caller passes in
PassedCalendar ==
    mapCalendar(RawCalendarOf(<<[contributionDays |-> <<RawDay(1, 3)>>]>>, 0))

\* calendar, username and githubToken: given (and truthy) or not
GraphProps == [calendar : BOOLEAN, username : BOOLEAN, githubToken : BOOLEAN]

NoProps == [calendar |-> FALSE, username |-> FALSE, githubToken |-> FALSE]

\* ContributionGraph up to its await, or to its return when it does not fetch
RenderContributionGraph(props, now) ==
    /\ gpc = "idle"
    /\ gProps' = props
    /\ IF ~props.calendar /\ props.username /\ props.githubToken
       THEN /\ StartCalendar(NoDate, NoDate, now)
            /\ gpc' = "awaitCalendar"
            /\ gOut' = gOut
       ELSE /\ cpc = "idle"
            /\ lpc = "idle"
            /\ gpc' = "returned"
            /\ gOut' = IF props.calendar THEN GraphView(PassedCalendar) ELSE InlineError
            /\ UNCHANGED <<valIn, valOut, mapIn, mapOut, cpc, cArgs, cRange, cLog,
                           cResp, cOut, langVars, moreVars>>

\* ContributionGraph from its await on, when it is the caller: a rejection
\* of fetchContributionCalendar is its own, a calendar is rendered
GraphResumes(outcome) ==
    IF gpc = "awaitCalendar"
    THEN /\ gpc' = IF outcome.status = "ok" THEN "returned" ELSE "threw"
         /\ gOut' = IF outcome.status # "ok" THEN outcome
                    ELSE GraphView(outcome.value)
         /\ UNCHANGED gProps
    ELSE UNCHANGED graphVars

\* await fetch(...) rejects: the network failure propagates.
CalendarFetchRejected ==
    /\ cpc = "awaitFetch"
    /\ cpc' = "failed"
    /\ cOut' = Failure("NetworkError", NoMessage)
    /\ GraphResumes(Failure("NetworkError", NoMessage))
    /\ UNCHANGED <<valIn, valOut, mapIn, mapOut, cArgs, cRange, cLog, cResp, langVars,
                   moreVars>>

\* What fetchContributionCalendar makes of the response: response.json(), the
\* errors check, the lookup of the calendar, mapCalendar.  response.ok is not read.
CalendarOutcome(resp) ==
    IF ~resp.json THEN Failure("SyntaxError", NoMessage)
    ELSE IF calendarErrorCheck(resp.errors).status = "failed"
         THEN calendarErrorCheck(resp.errors)
    ELSE IF resp.data.shape # "calendar" THEN Failure("NotFound", NoMessage)
    ELSE Returned(mapCalendar(resp.data.calendar))

CalendarResponse(resp) ==
    /\ cpc = "awaitFetch"
    /\ cResp' = resp
    /\ cOut' = CalendarOutcome(resp)
    /\ cpc' = IF CalendarOutcome(resp).status = "ok" THEN "done" ELSE "failed"
    /\ GraphResumes(CalendarOutcome(resp))
    /\ UNCHANGED <<valIn, valOut, mapIn, mapOut, cArgs, cRange, cLog, langVars,
                   moreVars>>

---------------------------------------------------------------------------
(* Response Validator of the language pipeline *)

\* errors.find((e) => e.message?.toLowerCase().includes("forbidden"))
RECURSIVE findForbidden(_)
findForbidden(errors) ==
    IF errors = <<>> THEN <<>>
    ELSE IF mentionsForbidden(errors[1]) THEN <<errors[1]>>
    ELSE findForbidden(Tail(errors))

\* assertNoGraphQLErrors reporting the last message of the list
assertNoGraphQLErrorsLast(errors) ==
    IF Len(errors) = 0 THEN Pending
    ELSE IF findForbidden(errors) # <<>>
         THEN Failure("PermissionError", findForbidden(errors)[1])
    ELSE Failure("GraphQLError", errors[Len(errors)])

\* What assertNoGraphQLErrors throws: Pending when it returns normally.
assertNoGraphQLErrors(errors) ==
    IF Len(errors) = 0 THEN Pending
    ELSE IF findForbidden(errors) # <<>>
         THEN Failure("PermissionError", findForbidden(errors)[1])
    ELSE Failure("GraphQLError", errors[1])

---------------------------------------------------------------------------
(* Repo Counter, filter and Aggregator: the part of fetchLanguageStats     *)
(* that follows the fetch.                                                 *)

\* repositories.filter((repo) => repo[flag]).length
CountWhere(seq, flag) == Cardinality({i \in 1..Len(seq) : seq[i][flag]})

\* getRepoCounts counting the forks as the private repositories
getRepoCountsForksAsPrivate(repos) ==
    LET total == Len(repos)
        forks == CountWhere(repos, "isFork")
    IN  [total |-> total,
         public |-> total - forks,
         private |-> forks,
         forks |-> forks,
         nonForks |-> total - forks]

getRepoCounts(repos) ==
    LET total == Len(repos)
        forks == CountWhere(repos, "isFork")
        privateCount == CountWhere(repos, "isPrivate")
    IN  [total |-> total,
         public |-> total - privateCount,
         private |-> privateCount,
         forks |-> forks,
         nonForks |-> total - forks]

\* const { includeForks = false, includePrivate = false } = options
OptionOr(option, default) == IF option = "absent" THEN default ELSE option = "yes"

\* KeepRepository forgetting the privacy test
KeepRepositoryForksOnly(repo, includeForks, includePrivate) ==
    IF ~includeForks /\ repo.isFork THEN FALSE ELSE TRUE

\* repositories.filter((repo) => { ... })
KeepRepository(repo, includeForks, includePrivate) ==
    IF ~includeForks /\ repo.isFork THEN FALSE
    ELSE IF ~includePrivate /\ repo.isPrivate THEN FALSE
    ELSE TRUE

filterRepositories(repos, includeForks, includePrivate) ==
    LET Keep(r) == KeepRepository(r, includeForks, includePrivate)
    IN  SelectSeq(repos, Keep)

\* RepoId that leaves the name of the repository out
RepoIdOwnerOnly(repo) == <<repo.owner, "">>

\* repo.owner?.login ? `${repo.owner.login}/${repo.name}` : repo.name
RepoId(repo) == IF repo.owner # "" THEN <<repo.owner, repo.name>> ELSE <<"", repo.name>>

IndexOfLanguage(map, name) ==
    IF \E i \in 1..Len(map) : map[i].name = name
    THEN CHOOSE i \in 1..Len(map) : map[i].name = name
    ELSE 0

\* AddEdge that takes the color of every edge that carries one
AddEdgeLastColor(map, repoId, edge) ==
    LET at == IndexOfLanguage(map, edge.node.name)
        current == IF at # 0 THEN map[at]
                   ELSE [name |-> edge.node.name, bytes |-> 0, repos |-> {},
                         color |-> edge.node.color]
        updated == [current EXCEPT
                        !.bytes = @ + edge.size,
                        !.repos = @ \cup {repoId},
                        !.color = IF edge.node.color # ""
                                  THEN edge.node.color ELSE @]
    IN  IF at # 0 THEN [map EXCEPT ![at] = updated] ELSE Append(map, updated)

\* The body of the inner loop of aggregateLanguageStats for one edge.  The Map
\* is a sequence of entries in insertion order.
AddEdge(map, repoId, edge) ==
    LET at == IndexOfLanguage(map, edge.node.name)
        current == IF at # 0 THEN map[at]
                   ELSE [name |-> edge.node.name, bytes |-> 0, repos |-> {},
                         color |-> edge.node.color]
        updated == [current EXCEPT
                        !.bytes = @ + edge.size,
                        !.repos = @ \cup {repoId},
                        !.color = IF edge.node.color # "" /\ @ = ""
                                  THEN edge.node.color ELSE @]
    IN  IF at # 0 THEN [map EXCEPT ![at] = updated] ELSE Append(map, updated)

\* AddEdges that takes only the first edge of a repository
AddEdgesFirstOnly(map, repoId, edges) ==
    IF edges = <<>> THEN map ELSE AddEdge(map, repoId, edges[1])

RECURSIVE AddEdges(_, _, _)
\* for (const edge of repo.languages.edges) { ... }
AddEdges(map, repoId, edges) ==
    IF edges = <<>> THEN map
    ELSE AddEdges(AddEdge(map, repoId, edges[1]), repoId, Tail(edges))

RECURSIVE AggregateInto(_, _)
AggregateInto(map, repos) ==
    IF repos = <<>> THEN map
    ELSE AggregateInto(AddEdges(map, RepoId(repos[1]), repos[1].languages.edges),
                       Tail(repos))

aggregateLanguageStats(repos) == AggregateInto(<<>>, repos)

RECURSIVE SumBytes(_)
\* [...languageMap.values()].reduce((sum, lang) => sum + lang.bytes, 0)
SumBytes(map) == IF map = <<>> THEN 0 ELSE map[1].bytes + SumBytes(Tail(map))

\* ToLanguageStats taking the share of the repositories for the percentage
ToLanguageStatsByRepos(entry, totalBytes) ==
    [language |-> entry.name,
     bytes |-> entry.bytes,
     repos |-> Cardinality(entry.repos),
     percentage |-> [num |-> Cardinality(entry.repos) * 100, den |-> totalBytes],
     color |-> entry.color]

\* percentage: (data.bytes / totalBytes) * 100, kept as an exact fraction
ToLanguageStats(entry, totalBytes) ==
    [language |-> entry.name,
     bytes |-> entry.bytes,
     repos |-> Cardinality(entry.repos),
     percentage |-> [num |-> entry.bytes * 100, den |-> totalBytes],
     color |-> entry.color]

\* (a, b) => b.percentage - a.percentage, for fractions of positive denominator
ComparePercentage(a, b) ==
    b.percentage.num * a.percentage.den - a.percentage.num * b.percentage.den

RECURSIVE InsertSortedBeforeEqual(_, _)
\* InsertSorted of a sort that is not stable: x goes before its equals
InsertSortedBeforeEqual(sorted, x) ==
    IF sorted = <<>> THEN <<x>>
    ELSE IF ComparePercentage(sorted[1], x) >= 0
         THEN <<x>> \o sorted
         ELSE <<sorted[1]>> \o InsertSortedBeforeEqual(Tail(sorted), x)

RECURSIVE InsertSorted(_, _)
InsertSorted(sorted, x) ==
    IF sorted = <<>> THEN <<x>>
    ELSE IF ComparePercentage(sorted[1], x) > 0
         THEN <<x>> \o sorted
         ELSE <<sorted[1]>> \o InsertSorted(Tail(sorted), x)

RECURSIVE SortByPercentage(_)
\* Array.prototype.sort is stable: equal elements keep their order
SortByPercentage(list) ==
    IF list = <<>> THEN <<>>
    ELSE InsertSorted(SortByPercentage(SubSeq(list, 1, Len(list) - 1)),
                      list[Len(list)])

\* LanguageStatsResult without the early return for totalBytes === 0
LanguageStatsResultAlwaysDividing(repos, options) ==
    LET includeForks == OptionOr(options.includeForks, FALSE)
        includePrivate == OptionOr(options.includePrivate, FALSE)
        filtered == filterRepositories(repos, includeForks, includePrivate)
        languageMap == aggregateLanguageStats(filtered)
        totalBytes == SumBytes(languageMap)
    IN  [languages |->
            SortByPercentage(
                [i \in 1..Len(languageMap) |->
                    ToLanguageStats(languageMap[i], totalBytes)]),
         totalBytes |-> totalBytes,
         totalRepos |-> Len(filtered),
         repoCounts |-> getRepoCounts(repos),
         filteredRepoCounts |-> getRepoCounts(filtered)]

\* LanguageStatsResult counting in totalRepos the repositories that have
\* language edges only
LanguageStatsResultCountingAggregated(repos, options) ==
    LET includeForks == OptionOr(options.includeForks, FALSE)
        includePrivate == OptionOr(options.includePrivate, FALSE)
        repoCounts == getRepoCounts(repos)
        filtered == filterRepositories(repos, includeForks, includePrivate)
        filteredRepoCounts == getRepoCounts(filtered)
        languageMap == aggregateLanguageStats(filtered)
        totalBytes == SumBytes(languageMap)
    IN  [languages |->
            IF totalBytes = 0 THEN <<>>
            ELSE SortByPercentage(
                    [i \in 1..Len(languageMap) |->
                        ToLanguageStats(languageMap[i], totalBytes)]),
         totalBytes |-> totalBytes,
         totalRepos |->
            Cardinality({i \in 1..Len(filtered) : filtered[i].languages.edges # <<>>}),
         repoCounts |-> repoCounts,
         filteredRepoCounts |-> filteredRepoCounts]

\* fetchLanguageStats from the return of fetchAllRepositories to its own return
LanguageStatsResult(repos, options) ==
    LET includeForks == OptionOr(options.includeForks, FALSE)
        includePrivate == OptionOr(options.includePrivate, FALSE)
        repoCounts == getRepoCounts(repos)
        filtered == filterRepositories(repos, includeForks, includePrivate)
        filteredRepoCounts == getRepoCounts(filtered)
        languageMap == aggregateLanguageStats(filtered)
        totalBytes == SumBytes(languageMap)
    IN  [languages |->
            IF totalBytes = 0 THEN <<>>
            ELSE SortByPercentage(
                    [i \in 1..Len(languageMap) |->
                        ToLanguageStats(languageMap[i], totalBytes)]),
         totalBytes |-> totalBytes,
         totalRepos |-> Len(filtered),
         repoCounts |-> repoCounts,
         filteredRepoCounts |-> filteredRepoCounts]

---------------------------------------------------------------------------
(* The server of the language pipeline *)

Usernames == {"alice"}
ViewerLogins == {"alice", "bob"}

OptionValues == {"absent", "yes", "no"}
Options == [includeForks : OptionValues, includePrivate : OptionValues]

\* The options the calls of the pipeline are made with in this model.
PipelineOptions ==
    {[includeForks |-> "absent", includePrivate |-> "absent"],
     [includeForks |-> "yes", includePrivate |-> "yes"]}

NullCursor == "null"
Cursors == {NullCursor, "c1", "c2"}

\* The endCursor a page carries: the position of the next page, if there is one.
EndCursors(more) == IF more THEN Cursors \ {NullCursor} ELSE {NullCursor}

\* The endCursor of a language page
LangEndCursor(more) == IF more THEN "c2" ELSE NullCursor

Edge(size, name, color) == [size |-> size, node |-> [name |-> name, color |-> color]]

FirstEdges == <<Edge(3, "TypeScript", "#3178c6")>>
MoreEdges == <<Edge(1, "Go", "")>>

\* languages { pageInfo { hasNextPage endCursor } edges }
Complete == [hasNextPage |-> FALSE, endCursor |-> NullCursor, edges |-> FirstEdges]
Truncated == [hasNextPage |-> TRUE, endCursor |-> "c1", edges |-> FirstEdges]

\* The repositories the server lists in this model: public or private, own or
\* forked, with a complete or a truncated first page of languages.
RepoKinds ==
    {[isFork |-> FALSE, isPrivate |-> FALSE, languages |-> Complete],
     [isFork |-> FALSE, isPrivate |-> FALSE, languages |-> Truncated],
     [isFork |-> TRUE, isPrivate |-> FALSE, languages |-> Truncated],
     [isFork |-> FALSE, isPrivate |-> TRUE, languages |-> Complete]}

\* The nodes of one page: the server names its repositories in listing order.
PageNodes(have, owner) ==
    {[i \in 1..Len(ks) |->
        [name |-> have + i, owner |-> owner, isFork |-> ks[i].isFork,
         isPrivate |-> ks[i].isPrivate, languages |-> ks[i].languages]] :
     ks \in SeqsUpTo(RepoKinds, MaxRepos - have)}

NoData ==
    [shape |-> "noData", login |-> "", nodes |-> <<>>, edges |-> <<>>,
     hasNextPage |-> FALSE, endCursor |-> NullCursor]

RepoPage(login, nodes, more, endCursor) ==
    [shape |-> "page", login |-> login, nodes |-> nodes, edges |-> <<>>,
     hasNextPage |-> more, endCursor |-> endCursor]

LangPage(edges, more, endCursor) ==
    [shape |-> "page", login |-> "", nodes |-> <<>>, edges |-> edges,
     hasNextPage |-> more, endCursor |-> endCursor]

\* What postGraphQL meets: fetch rejects, the status is not OK, the body is not
\* JSON, or the body is a GraphQL envelope {data?, errors?}.
Answer(transport, errors, data) ==
    [transport |-> transport, errors |-> errors, data |-> data]

FailedTransports == {Answer(t, <<>>, NoData) : t \in {"rejected", "httpError", "notJson"}}

\* The data that comes along with a non-empty errors array, when any does
PartialPage(username, have) ==
    RepoPage(username,
             <<[name |-> have + 1, owner |-> username, isFork |-> FALSE,
                isPrivate |-> FALSE, languages |-> Complete]>>,
             FALSE, NullCursor)

\* The page a token of another user gets: the viewer is that user, the
\* repositories are that user's
MismatchPage(login, have) ==
    RepoPage(login,
             <<[name |-> have + 1, owner |-> login, isFork |-> FALSE,
                isPrivate |-> FALSE, languages |-> Truncated]>>,
             FALSE, NullCursor)

\* The finite server reports another page only while it has served fewer than
\* `most` pages, this one included.
MoreFlags(served, most) == IF served + 1 < most THEN BOOLEAN ELSE {FALSE}

\* Repository pages of a server that lists at most MaxRepos repositories on at
\* most MaxPages pages.
RepoPages(username, served, have) ==
    UNION {{RepoPage(username, nodes, more, c) :
                nodes \in PageNodes(have, username), c \in EndCursors(more)} :
           more \in MoreFlags(served, MaxPages)}

RepoPageAnswers(username, served, have) ==
    FailedTransports
    \cup {Answer("json", <<>>, NoData)}
    \cup {Answer("json", <<>>, MismatchPage(l, have)) :
            l \in ViewerLogins \ {username}}
    \cup {Answer("json", <<>>, d) : d \in RepoPages(username, served, have)}
    \cup {Answer("json", e, d) :
            e \in PipelineErrorLists \ {<<>>},
            d \in {NoData, PartialPage(username, have)}}

\* Repository pages of a server that may report another page for ever.
EndlessRepoPageAnswers(username) ==
    UNION {{Answer("json", <<>>, RepoPage(username, <<>>, more, c)) :
                c \in EndCursors(more)} :
           more \in BOOLEAN}

LangPageAnswers(served) ==
    FailedTransports
    \cup {Answer("json", <<>>, NoData)}
    \cup {Answer("json", <<>>, LangPage(MoreEdges, more, LangEndCursor(more))) :
            more \in MoreFlags(served, MaxLangPages)}
    \cup {Answer("json", e, d) :
            e \in PipelineErrorLists \ {<<>>},
            d \in {NoData, LangPage(MoreEdges, FALSE, NullCursor)}}

---------------------------------------------------------------------------
(* postGraphQL and the Transport log *)

MaxLog == MaxPages + MaxRepos * Max(MaxLangPages, MaxSubPages) + 1

\* The log keeps the first MaxLog entries; against the finite server it never
\* fills up.
Record(log, entry) == IF Len(log) < MaxLog THEN Append(log, entry) ELSE log

RepoRequest(c) == [query |-> "ViewerRepoLanguages", owner |-> "", name |-> 0, cursor |-> c]

LangRequest(owner, name, c) ==
    [query |-> "RepoLanguages", owner |-> owner, name |-> name, cursor |-> c]

\* What postGraphQL throws for an answer: Pending when it returns the body.
postGraphQL(answer) ==
    IF answer.transport = "rejected" THEN Failure("NetworkError", NoMessage)
    ELSE IF answer.transport = "httpError" THEN Failure("HttpError", NoMessage)
    ELSE IF answer.transport = "notJson" THEN Failure("SyntaxError", NoMessage)
    ELSE Pending

---------------------------------------------------------------------------
(* fetchLanguageStats *)

\* NextTruncated going to the last truncated repository first
NextTruncatedLast(repos, after) ==
    IF \E i \in (after + 1)..Len(repos) : repos[i].languages.hasNextPage
    THEN CHOOSE i \in (after + 1)..Len(repos) :
            /\ repos[i].languages.hasNextPage
            /\ \A j \in (i + 1)..Len(repos) : ~repos[j].languages.hasNextPage
    ELSE 0

\* NextTruncated passing over the repositories the options exclude
NextTruncatedKept(repos, after) ==
    LET Kept(i) == KeepRepository(repos[i], OptionOr(lArgs.options.includeForks, FALSE),
                                  OptionOr(lArgs.options.includePrivate, FALSE))
    IN  IF \E i \in (after + 1)..Len(repos) : repos[i].languages.hasNextPage /\ Kept(i)
        THEN CHOOSE i \in (after + 1)..Len(repos) :
                /\ repos[i].languages.hasNextPage /\ Kept(i)
                /\ \A j \in (after + 1)..(i - 1) :
                        ~(repos[j].languages.hasNextPage /\ Kept(j))
        ELSE 0

\* for (const repo of repositories) { if (!repo.languages.pageInfo?.hasNextPage) continue
NextTruncated(repos, after) ==
    IF \E i \in (after + 1)..Len(repos) : repos[i].languages.hasNextPage
    THEN CHOOSE i \in (after + 1)..Len(repos) :
            /\ repos[i].languages.hasNextPage
            /\ \A j \in (after + 1)..(i - 1) : ~repos[j].languages.hasNextPage
    ELSE 0

LangFail(failure) ==
    /\ lpc' = "failed"
    /\ lOut' = failure
    /\ tOut' = failure
    /\ UNCHANGED <<repositories, hasNextPage, cursor, repoIdx, extraEdges,
                   langCursor, lLog, filteredRepositories>>

\* limit = 10
DefaultLimit == 10

NoLimit == [given |-> FALSE, n |-> 0]

\* slice ignoring its end
sliceToEnd(list, start, end) == list

\* Array.prototype.slice(start, end) for start = 0: a negative end counts
\* from the end of the array
slice(list, start, end) ==
    IF end < 0 THEN SubSeq(list, start + 1, Max(Len(list) + end, 0))
    ELSE SubSeq(list, start + 1, Min(end, Len(list)))

\* getTopLanguages after its await: stats.languages.slice(0, limit)
getTopLanguages(stats, lim) ==
    slice(stats.languages, 0, IF lim.given THEN lim.n ELSE DefaultLimit)

\* fetchLanguageStats from the return of fetchAllRepositories on
ReturnStats(repos) ==
    /\ lpc' = "done"
    /\ filteredRepositories' =
            filterRepositories(repos, OptionOr(lArgs.options.includeForks, FALSE),
                               OptionOr(lArgs.options.includePrivate, FALSE))
    /\ lOut' = Returned(LanguageStatsResult(repos, lArgs.options))
    /\ tOut' = Returned(getTopLanguages(LanguageStatsResult(repos, lArgs.options),
                                        limit))

\* enrichRepositoriesWithAllLanguages from the repository after position
\* `after` on, up to its next await; when no repository is left, the rest of
\* fetchLanguageStats.
Enrich(repos, after) ==
    LET i == NextTruncated(repos, after)
    IN  IF i # 0
        THEN /\ lpc' = "awaitLangPage"
             /\ repoIdx' = i
             /\ extraEdges' = <<>>
             /\ langCursor' = repos[i].languages.endCursor
             /\ lLog' = Record(lLog, LangRequest(repos[i].owner, repos[i].name,
                                                 repos[i].languages.endCursor))
             /\ UNCHANGED <<filteredRepositories, lOut, tOut>>
        ELSE /\ ReturnStats(repos)
             /\ UNCHANGED <<repoIdx, extraEdges, langCursor, lLog>>

\* fetchLanguageStats and fetchAllRepositories up to the first await
CallLanguageStats(username, options) ==
    /\ lpc = "idle"
    /\ cpc = "idle"
    /\ gpc = "idle"
    /\ lArgs' = [username |-> username, options |-> options]
    /\ repositories' = <<>>
    /\ hasNextPage' = TRUE
    /\ cursor' = NullCursor
    /\ lpc' = "awaitRepoPage"
    /\ lLog' = Record(lLog, RepoRequest(NullCursor))
    /\ UNCHANGED limit
    /\ UNCHANGED <<repoIdx, extraEdges, langCursor, lHist, filteredRepositories, lOut, tOut>>
    /\ UNCHANGED calVars

\* RepoPageFailure reading the errors only when the data is missing
RepoPageFailureDataFirst(answer, username) ==
    IF postGraphQL(answer).status = "failed" THEN postGraphQL(answer)
    ELSE IF answer.data.shape # "page" /\ assertNoGraphQLErrors(answer.errors).status = "failed"
         THEN assertNoGraphQLErrors(answer.errors)
    ELSE IF answer.data.shape # "page" THEN Failure("NoRepositories", NoMessage)
    ELSE IF answer.data.login # username THEN Failure("IdentityMismatch", NoMessage)
    ELSE Pending

\* RepoPageFailure without the comparison of viewer.login with the username
RepoPageFailureAnyViewer(answer, username) ==
    IF postGraphQL(answer).status = "failed" THEN postGraphQL(answer)
    ELSE IF assertNoGraphQLErrors(answer.errors).status = "failed"
         THEN assertNoGraphQLErrors(answer.errors)
    ELSE IF answer.data.shape # "page" THEN Failure("NoRepositories", NoMessage)
    ELSE Pending

\* RepoPageFailure comparing the viewer with the username only when private
\* repositories are asked for
RepoPageFailurePrivateOnly(answer, username) ==
    IF postGraphQL(answer).status = "failed" THEN postGraphQL(answer)
    ELSE IF assertNoGraphQLErrors(answer.errors).status = "failed"
         THEN assertNoGraphQLErrors(answer.errors)
    ELSE IF answer.data.shape # "page" THEN Failure("NoRepositories", NoMessage)
    ELSE IF OptionOr(lArgs.options.includePrivate, FALSE)
            /\ answer.data.login # username
         THEN Failure("IdentityMismatch", NoMessage)
    ELSE Pending

\* What the body of the while loop of fetchAllRepositories throws for an answer
RepoPageFailure(answer, username) ==
    IF postGraphQL(answer).status = "failed" THEN postGraphQL(answer)
    ELSE IF assertNoGraphQLErrors(answer.errors).status = "failed"
         THEN assertNoGraphQLErrors(answer.errors)
    ELSE IF answer.data.shape # "page" THEN Failure("NoRepositories", NoMessage)
    ELSE IF answer.data.login # username THEN Failure("IdentityMismatch", NoMessage)
    ELSE Pending

\* LoopAgain of a loop that stops after every page
LoopAgainNever(more) == FALSE

\* while (hasNextPage): whether the loop goes round again
LoopAgain(more) == more

\* NextCursor of a loop that never moves its cursor
NextCursorStale(pageInfo) == NullCursor

\* cursor = repos.pageInfo.endCursor
NextCursor(pageInfo) == pageInfo.endCursor

\* The answer to a repository-page request arrives: the rest of the loop body,
\* then the next request, or the enrichment up to its first await.
RepoPageReply(answer) ==
    /\ lpc = "awaitRepoPage"
    /\ lHist' = Record(lHist, answer)
    /\ UNCHANGED <<lArgs, limit>>
    /\ UNCHANGED calVars
    /\ IF RepoPageFailure(answer, lArgs.username).status = "failed"
       THEN LangFail(RepoPageFailure(answer, lArgs.username))
       ELSE LET repos == repositories \o answer.data.nodes
            IN  /\ repositories' = repos
                /\ hasNextPage' = answer.data.hasNextPage
                /\ cursor' = NextCursor(answer.data)
                /\ IF LoopAgain(answer.data.hasNextPage)
                   THEN /\ lpc' = "awaitRepoPage"
                        /\ lLog' = Record(lLog, RepoRequest(NextCursor(answer.data)))
                        /\ UNCHANGED <<repoIdx, extraEdges, langCursor,
                                       filteredRepositories, lOut, tOut>>
                   ELSE Enrich(repos, 0)

\* What fetchRemainingRepoLanguages throws for an answer
LangPageFailure(answer) ==
    IF postGraphQL(answer).status = "failed" THEN postGraphQL(answer)
    ELSE assertNoGraphQLErrors(answer.errors)

\* const languages = result.data?.repository?.languages; if (!languages) break
LanguagesMissing(answer) == answer.data.shape # "page"

\* PushEdges putting the extra edges in front of the initial ones
PushEdgesInFront(repos, i, edges) ==
    [repos EXCEPT ![i].languages.edges = edges \o @]

\* repo.languages.edges.push(...extraEdges)
PushEdges(repos, i, edges) ==
    [repos EXCEPT ![i].languages.edges = @ \o edges]

\* The answer to a language-page request arrives: the rest of the loop body of
\* fetchRemainingRepoLanguages, then its next request, or its return and the
\* rest of the enrichment.
LangPageReply(answer) ==
    /\ lpc = "awaitLangPage"
    /\ lHist' = Record(lHist, answer)
    /\ UNCHANGED <<lArgs, limit, hasNextPage, cursor>>
    /\ UNCHANGED calVars
    /\ IF LangPageFailure(answer).status = "failed"
       THEN /\ lpc' = "failed"
            /\ lOut' = LangPageFailure(answer)
            /\ tOut' = LangPageFailure(answer)
            /\ UNCHANGED <<repositories, repoIdx, extraEdges, langCursor, lLog,
                           filteredRepositories>>
       ELSE IF LanguagesMissing(answer)
       THEN LET repos == PushEdges(repositories, repoIdx, extraEdges)
            IN  /\ repositories' = repos
                /\ Enrich(repos, repoIdx)
       ELSE IF answer.data.hasNextPage
       THEN /\ extraEdges' = extraEdges \o answer.data.edges
            /\ langCursor' = answer.data.endCursor
            /\ lpc' = "awaitLangPage"
            /\ lLog' = Record(lLog, LangRequest(repositories[repoIdx].owner,
                                                repositories[repoIdx].name,
                                                answer.data.endCursor))
            /\ UNCHANGED <<repositories, repoIdx, filteredRepositories, lOut, tOut>>
       ELSE LET repos == PushEdges(repositories, repoIdx,
                                   extraEdges \o answer.data.edges)
            IN  /\ repositories' = repos
                /\ Enrich(repos, repoIdx)

\* Language pages the server has served for the repository at hand
LangPagesServed ==
    Cardinality({i \in 1..Len(lLog) :
        /\ lLog[i].query = "RepoLanguages"
        /\ lLog[i].name = repositories[repoIdx].name}) - 1

RepoPagesServed ==
    Cardinality({i \in 1..Len(lHist) : lLog[i].query = "ViewerRepoLanguages"})

LanguagesIdle ==
    /\ lpc = "idle"
    /\ lArgs = [username |-> "", options |-> [includeForks |-> "absent",
                                              includePrivate |-> "absent"]]
    /\ repositories = <<>>
    /\ hasNextPage = TRUE
    /\ cursor = NullCursor
    /\ repoIdx = 0
    /\ extraEdges = <<>>
    /\ langCursor = NullCursor
    /\ lLog = <<>>
    /\ lHist = <<>>
    /\ filteredRepositories = <<>>
    /\ lOut = Pending
    /\ limit = NoLimit
    /\ tOut = Pending

---------------------------------------------------------------------------
(* ContributionGraphView *)

NoCalendar == [total |-> 0, weeks |-> <<>>]

\* useState(null)
NotHovered == [set |-> FALSE]

NotOver == [over |-> FALSE, week |-> 0, day |-> 0]

\* A date "YYYY-MM-DD" is kept as its month (0 is January, as getMonth counts)
\* and its day of the month; the empty string as EmptyDate.
EmptyDate == [month |-> 0, day |-> 0]

DateOf(month, day) == [month |-> month, day |-> day]

\* The days of a calendar in this model: one contribution on a dated day
ViewDay(date) ==
    [date |-> date,
     count |-> IF date = EmptyDate THEN 0 ELSE 1,
     level |-> IF date = EmptyDate THEN 0 ELSE 1]

\* The weeks of a calendar in this model: without days, of undated days, with
\* a leading undated day, starting on the first of a month or later in it,
\* lying in one month or in two.
WeekKinds ==
    {[days |-> <<>>],
     [days |-> <<ViewDay(EmptyDate)>>],
     [days |-> <<ViewDay(EmptyDate), ViewDay(DateOf(0, 26))>>],
     [days |-> <<ViewDay(DateOf(0, 1))>>],
     [days |-> <<ViewDay(DateOf(0, 25))>>],
     [days |-> <<ViewDay(DateOf(1, 1))>>],
     [days |-> <<ViewDay(DateOf(1, 8))>>],
     [days |-> <<ViewDay(DateOf(0, 31)), ViewDay(DateOf(1, 1))>>]}

\* The browser's time zone: at UTC, or behind it (west of Greenwich).  Ahead
\* of UTC the local date of a UTC midnight is the date itself, as at UTC.
TimeZones == {"UTC", "west"}

MONTHS ==
    <<"Jan", "Feb", "Mar", "Apr", "May", "Jun", "Jul", "Aug", "Sep", "Oct", "Nov",
      "Dec">>

\* new Date(firstDay.date).getMonth(): a date-only string is parsed as
\* midnight UTC, and getMonth answers in local time: behind UTC that instant
\* lies in the evening before, on the first of a month in the month before
getMonth(date, zone) ==
    IF zone = "west" /\ date.day = 1
    THEN (date.month + 11) % 12
    ELSE date.month

\* week.days.find((d) => d.date): the position of the first dated day, 0 for
\* undefined
find(days) ==
    IF \E i \in 1..Len(days) : days[i].date # EmptyDate
    THEN CHOOSE i \in 1..Len(days) :
            /\ days[i].date # EmptyDate
            /\ \A j \in 1..(i - 1) : days[j].date = EmptyDate
    ELSE 0

RECURSIVE ScanWeeks(_, _, _, _, _)
\* weeks.forEach((week, weekIndex) => { ... }) from a week on, with the
\* prevMonth and the labels so far
ScanWeeks(weeks, weekIndex, prevMonth, labels, zone) ==
    IF weekIndex >= Len(weeks) THEN labels
    ELSE LET days == weeks[weekIndex + 1].days
             firstDay == find(days)
         IN  IF firstDay = 0
             THEN ScanWeeks(weeks, weekIndex + 1, prevMonth, labels, zone)
             ELSE LET month == getMonth(days[firstDay].date, zone)
                  IN  IF month # prevMonth
                      THEN ScanWeeks(weeks, weekIndex + 1, month,
                                     Append(labels, [label |-> MONTHS[month + 1],
                                                     weekIndex |-> weekIndex]),
                                     zone)
                      ELSE ScanWeeks(weeks, weekIndex + 1, prevMonth, labels, zone)

getMonthLabels(weeks, zone) == ScanWeeks(weeks, 0, -1, <<>>, zone)

CELL_SIZE == 12
CELL_GAP == 3
LABEL_WIDTH == 30

\* e.currentTarget.getBoundingClientRect() of the cell of a week and a day
\* (counted from 0), taken in the coordinates of the grid
CellRect(weekIdx, dayIdx) ==
    [left |-> weekIdx * (CELL_SIZE + CELL_GAP) + LABEL_WIDTH,
     top |-> dayIdx * (CELL_SIZE + CELL_GAP),
     width |-> CELL_SIZE]

\* { day, x: rect.left + rect.width / 2, y: rect.top }
Hovering(day, rect) ==
    [set |-> TRUE, day |-> day, x |-> rect.left + rect.width \div 2, y |-> rect.top]

ViewIdle ==
    /\ viewCalendar = NoCalendar
    /\ timeZone = "UTC"
    /\ monthLabels = Pending
    /\ hovered = NotHovered
    /\ pointer = NotOver

ViewUnchanged ==
    UNCHANGED <<valIn, valOut, mapIn, mapOut, cpc, cArgs, cRange, cLog, cResp, cOut,
                graphVars, userVars, calls, langVars>>

\* The first render: useState(null), useMemo(() => getMonthLabels(weeks))
RenderView ==
    /\ monthLabels = Pending
    /\ monthLabels' = Returned(getMonthLabels(viewCalendar.weeks, timeZone))
    /\ hovered' = NotHovered
    /\ UNCHANGED <<viewCalendar, timeZone, pointer>>
    /\ ViewUnchanged

\* onMouseEnter without its test of the date
MouseEnterAnyCell(week, day) ==
    /\ monthLabels.status = "ok"
    /\ week \in 1..Len(viewCalendar.weeks)
    /\ day \in 1..Len(viewCalendar.weeks[week].days)
    /\ pointer' = [over |-> TRUE, week |-> week, day |-> day]
    /\ hovered' = Hovering(viewCalendar.weeks[week].days[day],
                           CellRect(week - 1, day - 1))
    /\ UNCHANGED <<viewCalendar, timeZone, monthLabels>>
    /\ ViewUnchanged

\* onMouseEnter of the cell of a week and a day (counted from 1)
MouseEnter(week, day) ==
    /\ monthLabels.status = "ok"
    /\ week \in 1..Len(viewCalendar.weeks)
    /\ day \in 1..Len(viewCalendar.weeks[week].days)
    /\ pointer' = [over |-> TRUE, week |-> week, day |-> day]
    /\ hovered' = IF viewCalendar.weeks[week].days[day].date = EmptyDate
                  THEN hovered
                  ELSE Hovering(viewCalendar.weeks[week].days[day],
                                CellRect(week - 1, day - 1))
    /\ UNCHANGED <<viewCalendar, timeZone, monthLabels>>
    /\ ViewUnchanged

\* onMouseLeave={() => setHovered(null)}
MouseLeave ==
    /\ monthLabels.status = "ok"
    /\ pointer' = NotOver
    /\ hovered' = NotHovered
    /\ UNCHANGED <<viewCalendar, timeZone, monthLabels>>
    /\ ViewUnchanged

---------------------------------------------------------------------------
(* The user-scoped fetchAllRepositories, which asks the server for the     *)
(* public repositories only and filters every page                         *)

UserVariantIdle ==
    /\ upc = "idle"
    /\ uArgs = [username |-> "", options |-> [includeForks |-> "absent",
                                              includePrivate |-> "absent"]]
    /\ uRepositories = <<>>
    /\ uHasNextPage = TRUE
    /\ uCursor = NullCursor
    /\ uLog = <<>>
    /\ uOut = Pending

\* PrivacyArgument asking for the public repositories whatever the options
PrivacyArgumentPublic(includePrivate) == "PUBLIC"

\* privacy: includePrivate ? null : "PUBLIC"
PrivacyArgument(includePrivate) == IF includePrivate THEN "null" ELSE "PUBLIC"

UserRequest(c, privacy) ==
    [query |-> "UserRepoLanguages", cursor |-> c, privacy |-> privacy]

\* What the server lists for repositories(privacy: $privacy): a server that
\* honours the argument lists the public repositories for PUBLIC, all for null
Listed(pop, privacy) ==
    LET Shown(r) == privacy = "null" \/ ~r.isPrivate
    IN  SelectSeq(pop, Shown)

\* The position a cursor stands for, and the cursor of a position
CursorOffset(c) ==
    IF c = NullCursor THEN 0 ELSE IF c = "c1" THEN MaxPageSize ELSE 2 * MaxPageSize

CursorAfter(offset) == IF offset = MaxPageSize THEN "c1" ELSE "c2"

\* repositories(first: ..., after: $cursor): the page of a listing that
\* follows the cursor
ServerPage(list, login, c) ==
    LET from == CursorOffset(c)
        to == Min(from + MaxPageSize, Len(list))
        more == to < Len(list)
    IN  RepoPage(login, SubSeq(list, from + 1, to), more,
                 IF more THEN CursorAfter(to) ELSE NullCursor)

\* The user-scoped fetchAllRepositories up to its first await
CallUserVariant(username, options) ==
    /\ upc = "idle"
    /\ lpc \in {"done", "failed"}
    /\ uArgs' = [username |-> username, options |-> options]
    /\ uRepositories' = <<>>
    /\ uHasNextPage' = TRUE
    /\ uCursor' = NullCursor
    /\ upc' = "awaitUserPage"
    /\ uLog' = Append(uLog,
                      UserRequest(NullCursor,
                                  PrivacyArgument(OptionOr(options.includePrivate, FALSE))))
    /\ UNCHANGED <<population, uOut>>
    /\ UNCHANGED <<valIn, valOut, mapIn, mapOut, cpc, cArgs, cRange, cLog, cResp,
                   cOut, graphVars, viewVars, calls, langVars>>

\* What the body of the while loop of the user-scoped fetchAllRepositories
\* throws for an answer
UserPageFailure(answer) ==
    IF postGraphQL(answer).status = "failed" THEN postGraphQL(answer)
    ELSE IF assertNoGraphQLErrors(answer.errors).status = "failed"
         THEN assertNoGraphQLErrors(answer.errors)
    ELSE IF answer.data.shape # "page" THEN Failure("NotFound", NoMessage)
    ELSE Pending

\* The answer to a request of the user-scoped fetchAllRepositories arrives:
\* the rest of the loop body, with the filter of the page, then the next
\* request or the return
UserPageReply(answer) ==
    /\ upc = "awaitUserPage"
    /\ IF UserPageFailure(answer).status = "failed"
       THEN /\ upc' = "failed"
            /\ uOut' = UserPageFailure(answer)
            /\ UNCHANGED <<uRepositories, uHasNextPage, uCursor, uLog>>
       ELSE LET includeForks == OptionOr(uArgs.options.includeForks, FALSE)
                includePrivate == OptionOr(uArgs.options.includePrivate, FALSE)
                reposToAdd == filterRepositories(answer.data.nodes, includeForks,
                                                 includePrivate)
            IN  /\ uRepositories' = uRepositories \o reposToAdd
                /\ uHasNextPage' = answer.data.hasNextPage
                /\ uCursor' = answer.data.endCursor
                /\ IF answer.data.hasNextPage
                   THEN /\ upc' = "awaitUserPage"
                        /\ uLog' = Append(uLog,
                                UserRequest(answer.data.endCursor,
                                            PrivacyArgument(includePrivate)))
                        /\ uOut' = uOut
                   ELSE /\ upc' = "done"
                        /\ uOut' = Returned(uRepositories \o reposToAdd)
                        /\ uLog' = uLog
    /\ UNCHANGED <<population, uArgs>>
    /\ UNCHANGED <<valIn, valOut, mapIn, mapOut, cpc, cArgs, cRange, cLog, cResp,
                   cOut, graphVars, viewVars, calls, langVars>>

---------------------------------------------------------------------------
(* Calls in flight at the same time *)

NoCalls == <<>>

CallIds == 1..MaxCalls

NoArgs ==
    [username |-> "", options |-> [includeForks |-> "absent", includePrivate |-> "absent"],
     start |-> NoDate, end |-> NoDate, now |-> 0]

\* The locals of one call: of fetchLanguageStats with the functions it
\* awaits, or of fetchContributionCalendar
IdleCall ==
    [pc |-> "idle", kind |-> "", args |-> NoArgs, repositories |-> <<>>,
     hasNextPage |-> TRUE, cursor |-> NullCursor, repoIdx |-> 0, extraEdges |-> <<>>,
     langCursor |-> NullCursor, hist |-> <<>>, out |-> Pending]

\* fetchLanguageStats and fetchAllRepositories up to the first await
StartStatsCall(username, options) ==
    [IdleCall EXCEPT !.pc = "awaitRepoPage", !.kind = "stats",
                     !.args = [NoArgs EXCEPT !.username = username,
                                             !.options = options]]

\* fetchContributionCalendar up to its first await
StartCalendarCall(start, end, now) ==
    LET to == ResolveTo(end, now)
        from == ResolveFrom(start, to)
        begun == [IdleCall EXCEPT !.kind = "calendar",
                                  !.args = [NoArgs EXCEPT !.start = start,
                                                          !.end = end, !.now = now]]
    IN  IF RangeRejected(from, to)
        THEN [begun EXCEPT !.pc = "failed", !.out = Failure("InvalidRange", NoMessage)]
        ELSE [begun EXCEPT !.pc = "awaitFetch"]

\* enrichRepositoriesWithAllLanguages from the repository after a position
\* on, up to its next await, or the rest of fetchLanguageStats
EnrichCall(st, repos, after) ==
    LET i == NextTruncated(repos, after)
    IN  IF i # 0
        THEN [st EXCEPT !.pc = "awaitLangPage", !.repositories = repos,
                        !.repoIdx = i, !.extraEdges = <<>>,
                        !.langCursor = repos[i].languages.endCursor]
        ELSE [st EXCEPT !.pc = "done", !.repositories = repos,
                        !.out = Returned(LanguageStatsResult(repos, st.args.options))]

\* The body of the loop of fetchAllRepositories from its await on
AfterRepoPage(st, answer) ==
    IF RepoPageFailure(answer, st.args.username).status = "failed"
    THEN [st EXCEPT !.pc = "failed",
                    !.out = RepoPageFailure(answer, st.args.username)]
    ELSE LET repos == st.repositories \o answer.data.nodes
             next == [st EXCEPT !.repositories = repos,
                                !.hasNextPage = answer.data.hasNextPage,
                                !.cursor = NextCursor(answer.data)]
         IN  IF LoopAgain(answer.data.hasNextPage) THEN next
             ELSE EnrichCall(next, repos, 0)

\* The body of the loop of fetchRemainingRepoLanguages from its await on
AfterLangPage(st, answer) ==
    IF LangPageFailure(answer).status = "failed"
    THEN [st EXCEPT !.pc = "failed", !.out = LangPageFailure(answer)]
    ELSE IF LanguagesMissing(answer)
    THEN EnrichCall(st, PushEdges(st.repositories, st.repoIdx, st.extraEdges),
                    st.repoIdx)
    ELSE IF answer.data.hasNextPage
    THEN [st EXCEPT !.extraEdges = @ \o answer.data.edges,
                    !.langCursor = answer.data.endCursor]
    ELSE EnrichCall(st, PushEdges(st.repositories, st.repoIdx,
                                  st.extraEdges \o answer.data.edges),
                    st.repoIdx)

\* fetchContributionCalendar from its await on
AfterCalendarFetch(st, answer) ==
    LET outcome == IF answer.rejected THEN Failure("NetworkError", NoMessage)
                   ELSE CalendarOutcome(answer.response)
    IN  [st EXCEPT !.pc = IF outcome.status = "ok" THEN "done" ELSE "failed",
                   !.out = outcome]

\* A call resumes with the answer to the request it waits for
ResumeCall(st, answer) ==
    LET resumed == IF st.pc = "awaitRepoPage" THEN AfterRepoPage(st, answer)
                   ELSE IF st.pc = "awaitLangPage" THEN AfterLangPage(st, answer)
                   ELSE AfterCalendarFetch(st, answer)
    IN  [resumed EXCEPT !.hist = Append(st.hist, answer)]

ConcurrentUnchanged ==
    UNCHANGED <<valIn, valOut, mapIn, mapOut, cpc, cArgs, cRange, cLog, cResp, cOut,
                graphVars, viewVars, userVars, langVars>>

\* A caller starts fetchLanguageStats while other calls are in flight
StartStats(c, username, options) ==
    /\ calls[c].pc = "idle"
    /\ calls' = [calls EXCEPT ![c] = StartStatsCall(username, options)]
    /\ ConcurrentUnchanged

\* A caller starts fetchContributionCalendar while other calls are in flight
StartCalendarFetch(c, start, end, now) ==
    /\ calls[c].pc = "idle"
    /\ calls' = [calls EXCEPT ![c] = StartCalendarCall(start, end, now)]
    /\ ConcurrentUnchanged

\* Resume with the list of repositories kept in one place for all the calls
ResumeSharingRepositories(c, answer) ==
    /\ calls[c].pc \in {"awaitRepoPage", "awaitLangPage", "awaitFetch"}
    /\ LET resumed == ResumeCall(calls[c], answer)
       IN  calls' = [d \in CallIds |->
                        IF d = c THEN resumed
                        ELSE IF calls[d].kind = "stats" /\ resumed.kind = "stats"
                             THEN [calls[d] EXCEPT !.repositories = resumed.repositories]
                             ELSE calls[d]]
    /\ ConcurrentUnchanged

\* The answer to the request of one of the calls arrives: that call runs up
\* to its next await on its own locals
Resume(c, answer) ==
    /\ calls[c].pc \in {"awaitRepoPage", "awaitLangPage", "awaitFetch"}
    /\ calls' = [calls EXCEPT ![c] = ResumeCall(calls[c], answer)]
    /\ ConcurrentUnchanged

---------------------------------------------------------------------------
(* The mapper alone, applied to every raw calendar within the bounds *)

ApplyMapCalendar ==
    /\ mapOut = Pending
    /\ mapOut' = Returned(mapCalendar(mapIn))
    /\ UNCHANGED <<valIn, valOut, mapIn, cpc, cArgs, cRange, cLog, cResp, cOut,
                   graphVars, moreVars, langVars>>

NotValidated == [status |-> "unset"]

NoRawCalendar == [hasWeeks |-> FALSE, weeks |-> <<>>, totalContributions |-> 0]

CalendarCallsIdle ==
    /\ valIn = <<>>
    /\ valOut = NotValidated
    /\ cpc = "idle"
    /\ cArgs = [start |-> NoDate, end |-> NoDate, now |-> 0]
    /\ cRange = [from |-> 0, to |-> 0]
    /\ cLog = <<>>
    /\ cResp = NoResponse
    /\ cOut = Pending
    /\ gpc = "idle"
    /\ gProps = NoProps
    /\ gOut = Pending

CalendarFetchIdle ==
    /\ CalendarCallsIdle
    /\ ViewIdle
    /\ UserVariantIdle
    /\ calls = NoCalls

CalendarIdle ==
    /\ CalendarFetchIdle
    /\ population = <<>>

InitMapper ==
    /\ valIn = <<>>
    /\ valOut = NotValidated
    /\ \/ mapIn \in WeeklessCalendars(MaxCount)
       \/ \E k \in 0..MaxCells :
            \E cells \in [1..k -> Cells(MaxCount)], drift \in {0, MaxCount} :
                mapIn = RawCalendarOf(SplitWeeks(cells, <<>>, 1), drift)
    /\ mapOut = Pending
    /\ cpc = "idle"
    /\ cArgs = [start |-> NoDate, end |-> NoDate, now |-> 0]
    /\ cRange = [from |-> 0, to |-> 0]
    /\ cLog = <<>>
    /\ cResp = NoResponse
    /\ cOut = Pending
    /\ gpc = "idle"
    /\ gProps = NoProps
    /\ gOut = Pending
    /\ ViewIdle
    /\ UserVariantIdle
    /\ population = <<>>
    /\ calls = NoCalls
    /\ LanguagesIdle

NextMapper == ApplyMapCalendar

SpecMapper == InitMapper /\ [][NextMapper]_vars

---------------------------------------------------------------------------
(* The Response Validator alone, applied to every errors array within the  *)
(* bounds                                                                  *)

ApplyValidator ==
    /\ valOut = NotValidated
    /\ valOut' = assertNoGraphQLErrors(valIn)
    /\ UNCHANGED <<valIn, mapIn, mapOut, cpc, cArgs, cRange, cLog, cResp, cOut,
                   graphVars, moreVars, langVars>>

InitValidator ==
    /\ \E k \in 0..MaxErrors : valIn \in [1..k -> Messages]
    /\ valOut = NotValidated
    /\ mapIn = NoRawCalendar
    /\ mapOut = Pending
    /\ cpc = "idle"
    /\ cArgs = [start |-> NoDate, end |-> NoDate, now |-> 0]
    /\ cRange = [from |-> 0, to |-> 0]
    /\ cLog = <<>>
    /\ cResp = NoResponse
    /\ cOut = Pending
    /\ gpc = "idle"
    /\ gProps = NoProps
    /\ gOut = Pending
    /\ ViewIdle
    /\ UserVariantIdle
    /\ population = <<>>
    /\ calls = NoCalls
    /\ LanguagesIdle

NextValidator == ApplyValidator

SpecValidator == InitValidator /\ [][NextValidator]_vars

---------------------------------------------------------------------------
(* The tail of fetchLanguageStats alone, applied to every fetched list     *)
(* within the bounds and to the list of ten of the specification           *)

StatsEdgeLists ==
    {<<>>, FirstEdges, <<Edge(1, "Go", "#00ADD8"), Edge(3, "TypeScript", "")>>,
     <<Edge(3, "Rust", "#dea584"), Edge(3, "Go", "")>>,
     <<Edge(0, "HTML", "")>>,
     <<Edge(2, "Go", ""), Edge(1, "Go", "#375eab")>>}

StatsRepoKinds ==
    {[isFork |-> f, isPrivate |-> p,
      languages |-> [hasNextPage |-> FALSE, endCursor |-> NullCursor, edges |-> e]] :
        f \in BOOLEAN, p \in BOOLEAN, e \in StatsEdgeLists}

NamedRepos(kinds, owner) ==
    [i \in 1..Len(kinds) |->
        [name |-> i, owner |-> owner, isFork |-> kinds[i].isFork,
         isPrivate |-> kinds[i].isPrivate, languages |-> kinds[i].languages]]

\* Ten repositories: three forks, two private, one of them both
TenRepositories ==
    NamedRepos(
        [i \in 1..10 |->
            [isFork |-> i \in {2, 5, 9}, isPrivate |-> i \in {5, 7},
             languages |-> [hasNextPage |-> FALSE, endCursor |-> NullCursor,
                            edges |-> FirstEdges]]],
        "alice")

\* Three repositories, the owner of the first two unknown
OwnerlessRepositories ==
    [i \in 1..3 |->
        [name |-> i, owner |-> IF i = 3 THEN "alice" ELSE "",
         isFork |-> FALSE, isPrivate |-> FALSE,
         languages |-> [hasNextPage |-> FALSE, endCursor |-> NullCursor,
                        edges |-> IF i = 2 THEN <<>> ELSE FirstEdges]]]

ComputeStats ==
    /\ lpc = "fetched"
    /\ ReturnStats(repositories)
    /\ UNCHANGED <<lArgs, limit, repositories, hasNextPage, cursor, repoIdx,
                   extraEdges, langCursor, lLog, lHist>>
    /\ UNCHANGED calVars

InitStats ==
    /\ CalendarIdle
    /\ mapIn = NoRawCalendar
    /\ mapOut = Pending
    /\ lpc = "fetched"
    /\ \E username \in Usernames, options \in Options :
            /\ lArgs = [username |-> username, options |-> options]
            /\ \/ repositories = TenRepositories
               \/ repositories = OwnerlessRepositories
               \/ \E k \in 0..MaxStatsRepos : \E kinds \in [1..k -> StatsRepoKinds] :
                    repositories = NamedRepos(kinds, username)
    /\ hasNextPage = FALSE
    /\ cursor = NullCursor
    /\ repoIdx = 0
    /\ extraEdges = <<>>
    /\ langCursor = NullCursor
    /\ lLog = <<>>
    /\ lHist = <<>>
    /\ filteredRepositories = <<>>
    /\ lOut = Pending
    /\ limit = NoLimit
    /\ tOut = Pending

NextStats == ComputeStats

SpecStats == InitStats /\ [][NextStats]_vars

---------------------------------------------------------------------------
(* getTopLanguages, called with every limit within the bounds, against a   *)
(* server that lists the repositories on one page with all their languages *)

TopLimits == {NoLimit} \cup {[given |-> TRUE, n |-> k] : k \in (-1)..MaxLimit}

ElevenNames ==
    <<"C", "C++", "Go", "Java", "Kotlin", "PHP", "Python", "Ruby", "Rust",
      "Swift", "TypeScript">>

\* A repository of eleven languages, more than the default limit
ElevenLanguages ==
    [isFork |-> FALSE, isPrivate |-> FALSE,
     languages |-> [hasNextPage |-> FALSE, endCursor |-> NullCursor,
                    edges |-> [i \in 1..11 |-> Edge(12 - i, ElevenNames[i], "")]]]

TopRepoKinds == {k \in StatsRepoKinds : ~k.isFork /\ ~k.isPrivate}

TopRepoLists ==
    {<<ElevenLanguages>>} \cup UNION {[1..k -> TopRepoKinds] : k \in 0..MaxStatsRepos}

TopAnswers(username) ==
    FailedTransports
    \cup {Answer("json", e, NoData) : e \in PipelineErrorLists}
    \cup {Answer("json", <<>>, MismatchPage(l, 0)) : l \in ViewerLogins \ {username}}
    \cup {Answer("json", <<>>,
                 RepoPage(username, NamedRepos(kinds, username), FALSE, NullCursor)) :
            kinds \in TopRepoLists}

InitTop ==
    /\ mapIn = NoRawCalendar
    /\ mapOut = Pending
    /\ CalendarIdle
    /\ lpc = "idle"
    /\ lArgs = [username |-> "", options |-> [includeForks |-> "absent",
                                              includePrivate |-> "absent"]]
    /\ repositories = <<>>
    /\ hasNextPage = TRUE
    /\ cursor = NullCursor
    /\ repoIdx = 0
    /\ extraEdges = <<>>
    /\ langCursor = NullCursor
    /\ lLog = <<>>
    /\ lHist = <<>>
    /\ filteredRepositories = <<>>
    /\ lOut = Pending
    /\ limit \in TopLimits
    /\ tOut = Pending

NextTop ==
    \/ \E username \in Usernames :
            CallLanguageStats(username, [includeForks |-> "absent",
                                         includePrivate |-> "absent"])
    \/ \E answer \in TopAnswers(lArgs.username) : RepoPageReply(answer)

SpecTop == InitTop /\ [][NextTop]_vars

---------------------------------------------------------------------------
(* The two fetches, one call at a time, against the finite server *)

Init ==
    /\ mapIn = NoRawCalendar
    /\ mapOut = Pending
    /\ CalendarIdle
    /\ LanguagesIdle

Next ==
    \/ \E start \in OptDates, end \in OptDates, now \in Dates :
            CallCalendar(start, end, now)
    \/ \E props \in GraphProps, now \in Dates : RenderContributionGraph(props, now)
    \/ CalendarFetchRejected
    \/ \E resp \in CalendarResponses : CalendarResponse(resp)
    \/ \E username \in Usernames, options \in PipelineOptions :
            CallLanguageStats(username, options)
    \/ \E answer \in RepoPageAnswers(lArgs.username, RepoPagesServed,
                                      Len(repositories)) :
            RepoPageReply(answer)
    \/ \E answer \in LangPageAnswers(LangPagesServed) : LangPageReply(answer)

Spec == Init /\ [][Next]_vars

---------------------------------------------------------------------------
(* Repository pagination against a server that may report another page for *)
(* ever; every request is eventually answered                              *)

NextLoop ==
    \/ \E username \in Usernames, options \in PipelineOptions :
            CallLanguageStats(username, options)
    \/ \E answer \in EndlessRepoPageAnswers(lArgs.username) : RepoPageReply(answer)

Answered == \E answer \in EndlessRepoPageAnswers(lArgs.username) : RepoPageReply(answer)

SpecLoop == Init /\ [][NextLoop]_vars /\ WF_vars(Answered)

---------------------------------------------------------------------------
(* The Language Sub-Paginator against a server that lists the repositories *)
(* on one page and has up to MaxSubPages further language pages for each   *)
(* truncated one, every page with edges of its own                         *)

SubEdges(page) == <<Edge(page, ElevenNames[page], "")>>

SubRepoAnswers(username) ==
    {Answer("json", <<>>, RepoPage(username, nodes, FALSE, NullCursor)) :
        nodes \in PageNodes(0, username)}

SubPageAnswers(served) ==
    {Answer("httpError", <<>>, NoData), Answer("json", <<>>, NoData),
     Answer("json", <<MsgNotFound>>, NoData)}
    \cup UNION {{Answer("json", <<>>, LangPage(SubEdges(served + 1), more, c)) :
                    c \in EndCursors(more)} :
                more \in MoreFlags(served, MaxSubPages)}

NextLang ==
    \/ \E username \in Usernames :
            CallLanguageStats(username, [includeForks |-> "yes",
                                         includePrivate |-> "yes"])
    \/ \E answer \in SubRepoAnswers(lArgs.username) : RepoPageReply(answer)
    \/ /\ lpc = "awaitLangPage"
       /\ \E answer \in SubPageAnswers(LangPagesServed) : LangPageReply(answer)

SpecLang == Init /\ [][NextLang]_vars

---------------------------------------------------------------------------
(* ContributionGraphView, rendered with every calendar within the bounds   *)
(* in either time zone, then hovered                                       *)

InitView ==
    /\ mapIn = NoRawCalendar
    /\ mapOut = Pending
    /\ CalendarCallsIdle
    /\ LanguagesIdle
    /\ UserVariantIdle
    /\ population = <<>>
    /\ calls = NoCalls
    /\ monthLabels = Pending
    /\ hovered = NotHovered
    /\ pointer = NotOver
    /\ timeZone \in TimeZones
    /\ \E k \in 0..MaxWeeks : \E weeks \in [1..k -> WeekKinds] :
            viewCalendar = [total |-> 0, weeks |-> weeks]

NextView ==
    \/ RenderView
    \/ \E week \in 1..MaxWeeks, day \in 1..MaxWeekDays : MouseEnter(week, day)
    \/ MouseLeave

SpecView == InitView /\ [][NextView]_vars

---------------------------------------------------------------------------
(* Calls of fetchLanguageStats and fetchContributionCalendar in flight at  *)
(* the same time, resumed in any order                                     *)

\* The repository pages the server answers with: a first page of one
\* repository with truncated languages, a last page of a fork
ConcurrentRepoPages ==
    {RepoPage("alice", NamedRepos(<<[isFork |-> FALSE, isPrivate |-> FALSE,
                                     languages |-> Truncated]>>, "alice"),
              TRUE, "c1"),
     RepoPage("alice",
              <<[name |-> 2, owner |-> "alice", isFork |-> TRUE,
                 isPrivate |-> FALSE, languages |-> Complete]>>,
              FALSE, NullCursor),
     RepoPage("alice", NamedRepos(<<[isFork |-> FALSE, isPrivate |-> FALSE,
                                     languages |-> Truncated]>>, "alice"),
              FALSE, NullCursor)}

\* The answers to the request a call waits for
ConcurrentAnswers(st) ==
    IF st.pc = "awaitRepoPage"
    THEN {Answer("httpError", <<>>, NoData)}
         \cup {Answer("json", <<>>, page) : page \in ConcurrentRepoPages}
    ELSE IF st.pc = "awaitLangPage"
    THEN {Answer("json", <<MsgForbidden>>, NoData),
          Answer("json", <<>>, LangPage(MoreEdges, FALSE, NullCursor))}
    ELSE {[rejected |-> TRUE, response |-> NoResponse]}
         \cup {[rejected |-> FALSE, response |-> r] :
                 r \in {x \in CalendarResponses :
                            /\ x.json
                            /\ x.ok
                            /\ x.errors = <<>>
                            /\ x.data.shape \in {"calendar", "noUser"}}}

InitConcurrent ==
    /\ mapIn = NoRawCalendar
    /\ mapOut = Pending
    /\ CalendarCallsIdle
    /\ ViewIdle
    /\ UserVariantIdle
    /\ population = <<>>
    /\ LanguagesIdle
    /\ calls = [c \in CallIds |-> IdleCall]

NextConcurrent ==
    \/ \E c \in CallIds, options \in PipelineOptions : StartStats(c, "alice", options)
    \/ \E c \in CallIds : StartCalendarFetch(c, NoDate, NoDate, 0)
    \/ \E c \in CallIds :
            /\ calls[c].pc \in {"awaitRepoPage", "awaitLangPage", "awaitFetch"}
            /\ Len(calls[c].hist) < MaxHist
            /\ \E answer \in ConcurrentAnswers(calls[c]) : Resume(c, answer)

SpecConcurrent == InitConcurrent /\ [][NextConcurrent]_vars

---------------------------------------------------------------------------
(* fetchLanguageStats called with every combination of options, with a     *)
(* token of the user asked for or of another user                          *)

\* The repository pages of the token's viewer: of the user asked for, or of
\* another user
IdentityAnswers ==
    {Answer("json", <<>>, page) : page \in ConcurrentRepoPages}
    \cup {Answer("json", <<>>, MismatchPage(login, Len(repositories))) :
            login \in ViewerLogins \ {lArgs.username}}

NextIdentity ==
    \/ \E username \in Usernames, options \in Options :
            CallLanguageStats(username, options)
    \/ /\ RepoPagesServed < MaxPages
       /\ \E answer \in IdentityAnswers : RepoPageReply(answer)
    \/ /\ lpc = "awaitLangPage"
       /\ LangPageReply(Answer("json", <<>>, LangPage(MoreEdges, FALSE, NullCursor)))

SpecIdentity == Init /\ [][NextIdentity]_vars

---------------------------------------------------------------------------
(* The two variants of the fetch against one server: fetchLanguageStats,   *)
(* which fetches the viewer's repositories unfiltered and filters the      *)
(* list, then the user-scoped fetchAllRepositories, which passes the       *)
(* privacy argument and filters every page                                 *)

PopulationKinds ==
    {[isFork |-> f, isPrivate |-> p, languages |-> Complete] :
        f \in BOOLEAN, p \in BOOLEAN}

FilterOptions ==
    [includeForks : {"absent", "yes"}, includePrivate : {"absent", "yes"}]

\* What the server answers to the request the user-scoped variant waits
\* for: the page after its cursor of the listing its privacy argument asks
\* for, or a failure
UserAnswers ==
    {Answer("httpError", <<>>, NoData), Answer("json", <<>>, NoData),
     Answer("json", <<MsgForbidden>>, NoData)}
    \cup {Answer("json", <<>>,
                 ServerPage(Listed(population, uLog[Len(uLog)].privacy),
                            uArgs.username, uLog[Len(uLog)].cursor))}

InitFilter ==
    /\ mapIn = NoRawCalendar
    /\ mapOut = Pending
    /\ CalendarFetchIdle
    /\ LanguagesIdle
    /\ \E k \in 0..MaxPopulation : \E kinds \in [1..k -> PopulationKinds] :
            population = NamedRepos(kinds, "alice")

NextFilter ==
    \/ \E options \in FilterOptions : CallLanguageStats("alice", options)
    \/ /\ lpc = "awaitRepoPage"
       /\ RepoPageReply(Answer("json", <<>>,
                                ServerPage(population, lArgs.username, cursor)))
    \/ CallUserVariant(lArgs.username, lArgs.options)
    \/ /\ upc = "awaitUserPage"
       /\ \E answer \in UserAnswers : UserPageReply(answer)

SpecFilter == InitFilter /\ [][NextFilter]_vars


---------------------------------------------------------------------------
(* Properties *)

\* The days of a calendar, as the set of their positions (week, day)
DayPositions(calendar) ==
    {p \in (1..Len(calendar.weeks)) \X (1..MaxCells) :
        p[2] <= Len(calendar.weeks[p[1]].days)}

DayAt(calendar, p) == calendar.weeks[p[1]].days[p[2]]

\* The level table of the specification
LevelTable(c) ==
    CASE c = 0 -> 0
      [] c >= 1 /\ c <= 2 -> 1
      [] c >= 3 /\ c <= 5 -> 2
      [] c >= 6 /\ c <= 10 -> 3
      [] c > 10 -> 4

\* C1: every day of a mapped calendar carries the level the table gives for
\* its count (0 -> 0, 1..2 -> 1, 3..5 -> 2, 6..10 -> 3, above 10 -> 4); the
\* level lies in 0..4 and never decreases when the count grows.
C1_LevelBuckets ==
    mapOut.status = "ok" =>
        LET cal == mapOut.value
        IN  /\ \A p \in DayPositions(cal) :
                    /\ DayAt(cal, p).count =
                           mapIn.weeks[p[1]].contributionDays[p[2]].contributionCount
                    /\ DayAt(cal, p).level = LevelTable(DayAt(cal, p).count)
                    /\ DayAt(cal, p).level \in 0..4
            /\ \A p \in DayPositions(cal), q \in DayPositions(cal) :
                    DayAt(cal, p).count <= DayAt(cal, q).count
                        => DayAt(cal, p).level <= DayAt(cal, q).level

\* A calendar was mapped whose days hold the boundary counts 10 and 11
C1_Witness ==
    /\ mapOut.status = "ok"
    /\ \E p \in DayPositions(mapOut.value), q \in DayPositions(mapOut.value) :
            /\ DayAt(mapOut.value, p).count = 10 /\ DayAt(mapOut.value, p).level = 3
            /\ DayAt(mapOut.value, q).count = 11 /\ DayAt(mapOut.value, q).level = 4

RECURSIVE SumOver(_, _)
SumOver(S, calendar) ==
    IF S = {} THEN 0
    ELSE LET p == CHOOSE x \in S : TRUE
         IN  DayAt(calendar, p).count + SumOver(S \ {p}, calendar)

\* C2: the total of a mapped calendar is the sum of the counts of the days it
\* holds, whatever totalContributions the upstream reported; it is 0 when the
\* weeks list is missing or empty.
C2_TotalIsSumOfDays ==
    mapOut.status = "ok" =>
        /\ mapOut.value.total = SumOver(DayPositions(mapOut.value), mapOut.value)
        /\ Len(mapOut.value.weeks) = Len(WeeksOrEmpty(mapIn))
        /\ \A w \in 1..Len(mapOut.value.weeks) :
                Len(mapOut.value.weeks[w].days) = Len(mapIn.weeks[w].contributionDays)
        /\ WeeksOrEmpty(mapIn) = <<>> => mapOut.value.total = 0

\* A calendar of two weeks was mapped whose upstream total disagrees with its days
C2_Witness ==
    /\ mapOut.status = "ok"
    /\ Len(mapOut.value.weeks) = 2
    /\ mapOut.value.weeks[1].days # <<>>
    /\ mapOut.value.weeks[2].days # <<>>
    /\ mapOut.value.total > 0
    /\ mapIn.totalContributions # mapOut.value.total

\* C3: once fetchContributionCalendar is called, the range is the resolved one
\* (end or now; start or one year before the end); when from > to the call
\* has failed with the invalid-range error and no Transport call was issued;
\* otherwise (equal dates included) exactly one Transport call, for the whole
\* range, was issued and the call did not fail with the invalid-range error.
C3_RangeCheck ==
    cpc # "idle" =>
        /\ cRange.to = (IF cArgs.end.given THEN cArgs.end.at ELSE cArgs.now)
        /\ cRange.from = (IF cArgs.start.given THEN cArgs.start.at
                           ELSE cRange.to - YearLength)
        /\ IF cRange.from > cRange.to
           THEN /\ cpc = "failed"
                /\ cOut.kind = "InvalidRange"
                /\ cLog = <<>>
           ELSE /\ Len(cLog) = 1
                /\ cLog[1] = [from |-> cRange.from, to |-> cRange.to]
                /\ ~(cOut.status = "failed" /\ cOut.kind = "InvalidRange")

\* A call with start after end was refused without a Transport call
C3_Witness ==
    /\ cpc = "failed"
    /\ cArgs.start.given /\ cArgs.end.given
    /\ cArgs.start.at > cArgs.end.at
    /\ cOut.kind = "InvalidRange"
    /\ cLog = <<>>

GraphQLKinds == {"GraphQLError", "PermissionError"}

LastAnswer(hist) == hist[Len(hist)]

\* C4: in both pipelines the step that receives a response with a non-empty
\* errors array fails the call with a GraphQL error (generic or permission),
\* whatever data the response carries: nothing is appended to the repository
\* list or to the language edges, no further request is issued, nothing is
\* returned.
C4_ErrorsTakePrecedence ==
    [][/\ (cpc = "awaitFetch" /\ cpc' # "awaitFetch"
            /\ cResp'.json /\ cResp'.errors # <<>>)
           => /\ cpc' = "failed"
              /\ cOut'.status = "failed"
              /\ cOut'.kind \in GraphQLKinds
       /\ (Len(lHist') = Len(lHist) + 1
            /\ LastAnswer(lHist').transport = "json"
            /\ LastAnswer(lHist').errors # <<>>)
           => /\ lpc' = "failed"
              /\ lOut'.status = "failed"
              /\ lOut'.kind \in GraphQLKinds
              /\ repositories' = repositories
              /\ extraEdges' = extraEdges
              /\ filteredRepositories' = filteredRepositories
              /\ lLog' = lLog
      ]_vars

\* A second repository page came with errors and with data, and the call failed
\* keeping only the first page
C4_Witness ==
    /\ lpc = "failed"
    /\ Len(lHist) = 2
    /\ lHist[2].errors # <<>>
    /\ lHist[2].data.shape = "page"
    /\ lHist[2].data.nodes # <<>>
    /\ lOut.kind = "GraphQLError"
    /\ repositories = lHist[1].data.nodes
    /\ repositories # <<>>

\* The messages of the model that contain "forbidden" in some letter case
SaysForbidden(msg) == msg \in {MsgForbidden, MsgFORBIDDEN, MsgLower}

\* C5: a response with a non-empty errors array whose first message contains
\* "forbidden" in any letter case fails the call with the permission error, in
\* fetchContributionCalendar as in fetchLanguageStats.
C5_ForbiddenIsPermissionError ==
    /\ (cpc \in {"done", "failed"} /\ cResp.json /\ cResp.errors # <<>>
         /\ SaysForbidden(cResp.errors[1]))
        => (cOut.status = "failed" /\ cOut.kind = "PermissionError")
    /\ (lpc \in {"done", "failed"} /\ lHist # <<>>
         /\ LastAnswer(lHist).transport = "json"
         /\ LastAnswer(lHist).errors # <<>>
         /\ SaysForbidden(LastAnswer(lHist).errors[1]))
        => (lOut.status = "failed" /\ lOut.kind = "PermissionError")

\* C6 as stated: when the first message does not contain "forbidden", the
\* validator throws the generic error with the first message, whatever the
\* later entries contain.
C6_FirstErrorDecides ==
    (valOut # NotValidated /\ valIn # <<>> /\ ~SaysForbidden(valIn[1]))
        => (valOut.status = "failed" /\ valOut.kind = "GraphQLError"
            /\ valOut.msg = valIn[1])

\* C6 as amended: for a non-empty errors array the validator throws; when no
\* message of the array contains "forbidden" it throws the generic error with
\* the first message; when some message does, it throws the permission error
\* with the first message that does.
C6_AnyForbiddenDecides ==
    (valOut # NotValidated /\ valIn # <<>>) =>
        /\ valOut.status = "failed"
        /\ IF \E i \in 1..Len(valIn) : SaysForbidden(valIn[i])
           THEN /\ valOut.kind = "PermissionError"
                /\ \E i \in 1..Len(valIn) :
                        /\ SaysForbidden(valIn[i])
                        /\ \A j \in 1..(i - 1) : ~SaysForbidden(valIn[j])
                        /\ valOut.msg = valIn[i]
           ELSE /\ valOut.kind = "GraphQLError"
                /\ valOut.msg = valIn[1]

\* The validator threw the generic error for two different messages, neither
\* of which contains "forbidden"
C6_Witness ==
    /\ valOut # NotValidated
    /\ Len(valIn) >= 2
    /\ valIn[1] # valIn[2]
    /\ \A i \in 1..Len(valIn) : ~SaysForbidden(valIn[i])
    /\ valOut.kind = "GraphQLError"
    /\ valOut.msg = valIn[1]

\* An answer that is a Transport failure, carries errors or lacks the data
Abnormal(answer) ==
    \/ answer.transport # "json"
    \/ answer.errors # <<>>
    \/ answer.data.shape # "page"

\* C7: any Transport failure, GraphQL error or missing data, at a repository
\* page or at a language page, fails fetchLanguageStats, and once it has
\* failed every request it issued had been answered (none was issued after
\* the failure); so a result is returned only when every page came in.
C7_AllOrNothing ==
    /\ (\E i \in 1..Len(lHist) : Abnormal(lHist[i])) => lpc = "failed"
    /\ lpc = "failed" => Len(lLog) = Len(lHist)

\* The repository-page requests of the log
RepoRequests == {i \in 1..Len(lLog) : lLog[i].query = "ViewerRepoLanguages"}

RECURSIVE ConcatNodes(_, _)
ConcatNodes(hist, n) ==
    IF n = 0 THEN <<>> ELSE ConcatNodes(hist, n - 1) \o hist[n].data.nodes

Names(repos) == [i \in 1..Len(repos) |-> repos[i].name]

\* C8: the repository-page requests are the first n of the log; the first
\* carries the null cursor, request k+1 the endCursor of answer k, which was
\* an error-free page reporting another page; once the pagination is over,
\* answer n was an error-free page reporting no other page (so n is the
\* number of pages the server has) and the list collected is the
\* concatenation of the nodes of the n pages, in page order.
C8_CursorChain ==
    lpc # "idle" =>
        LET n == Cardinality(RepoRequests)
        IN  /\ n >= 1
            /\ RepoRequests = 1..n
            /\ lLog[1].cursor = NullCursor
            /\ \A k \in 1..(n - 1) :
                    /\ ~Abnormal(lHist[k])
                    /\ lHist[k].data.hasNextPage
                    /\ lLog[k + 1].cursor = lHist[k].data.endCursor
            /\ (lpc \in {"awaitLangPage", "done"} \/ Len(lHist) > n) =>
                    /\ ~Abnormal(lHist[n])
                    /\ ~lHist[n].data.hasNextPage
                    /\ Names(repositories) = Names(ConcatNodes(lHist, n))
                    /\ Len(lHist) = n => repositories = ConcatNodes(lHist, n)

\* Two non-empty pages were collected, the second asked for with the cursor
\* the first answer gave
C8_Witness ==
    /\ lpc \in {"awaitLangPage", "done"}
    /\ Len(lHist) = 2
    /\ Cardinality(RepoRequests) = 2
    /\ lHist[1].data.nodes # <<>>
    /\ lHist[2].data.nodes # <<>>
    /\ lLog[2].cursor = "c2"
    /\ Len(repositories) = 2

\* C9: when every answer is an error-free page and every request is
\* answered, fetchAllRepositories leaves its loop (and, no repository being
\* listed, fetchLanguageStats returns) if and only if the server at some
\* point reports hasNextPage = false; an answer reporting another page always
\* leaves the call waiting for the next page, however many pages came before.
C9_TerminatesIffLastPage ==
    /\ [](lpc = "done" => ~hasNextPage)
    /\ (lpc # "idle" /\ ~hasNextPage) ~> (lpc = "done")
    /\ [][(lpc = "awaitRepoPage" /\ hasNextPage') => lpc' = "awaitRepoPage"]_vars

\* The loop ended on the fourth page, the first to report no other page
C9_Witness ==
    /\ lpc = "done"
    /\ ~hasNextPage
    /\ Len(lHist) = 4
    /\ \A k \in 1..3 : lHist[k].data.hasNextPage

\* The repositories an option set asks for
Wanted(repo, options) ==
    /\ options.includeForks = "yes" \/ ~repo.isFork
    /\ options.includePrivate = "yes" \/ ~repo.isPrivate

KeptIndexes == {i \in 1..Len(repositories) : Wanted(repositories[i], lArgs.options)}

NthKept(j) ==
    CHOOSE i \in KeptIndexes : Cardinality({k \in KeptIndexes : k <= i}) = j

\* C10: the list fetchLanguageStats aggregates holds exactly the fetched
\* repositories r with (includeForks or not r.isFork) and (includePrivate or
\* not r.isPrivate), in fetched order, an absent option counting as false;
\* totalRepos and filteredRepoCounts.total are its length; of the ten
\* repositories with three forks and two private, one of them both, the
\* defaults keep six.
C10_FilterMembership ==
    lpc = "done" =>
        /\ Len(filteredRepositories) = Cardinality(KeptIndexes)
        /\ \A j \in 1..Len(filteredRepositories) :
                filteredRepositories[j] = repositories[NthKept(j)]
        /\ lOut.value.totalRepos = Cardinality(KeptIndexes)
        /\ lOut.value.filteredRepoCounts.total = Cardinality(KeptIndexes)
        /\ (lArgs.options.includeForks = "absent"
            /\ lArgs.options.includePrivate = "absent") =>
                /\ \A j \in 1..Len(filteredRepositories) :
                        /\ ~filteredRepositories[j].isFork
                        /\ ~filteredRepositories[j].isPrivate
                /\ repositories = TenRepositories => Len(filteredRepositories) = 6

\* The ten repositories were filtered with the default options
C10_Witness ==
    /\ lpc = "done"
    /\ repositories = TenRepositories
    /\ lArgs.options.includeForks = "absent"
    /\ lArgs.options.includePrivate = "absent"
    /\ Names(filteredRepositories) = <<1, 3, 4, 6, 8, 10>>

\* An error-free page whose viewer is not the user asked for
OtherViewer(answer) ==
    /\ ~Abnormal(answer)
    /\ answer.data.login # lArgs.username

\* C11: the step that receives an error-free repository page whose viewer
\* login differs from the requested username fails fetchLanguageStats with
\* the identity-mismatch error: the page is not collected, no request is
\* issued, nothing is returned; when the first page is such a page, the call
\* has failed on it, with the one request of the first page in the log.
C11_IdentityMismatch ==
    /\ [][(lpc = "awaitRepoPage" /\ Len(lHist') = Len(lHist) + 1
           /\ OtherViewer(LastAnswer(lHist')))
          => /\ lpc' = "failed"
             /\ lOut' = Failure("IdentityMismatch", NoMessage)
             /\ repositories' = repositories
             /\ lLog' = lLog
             /\ filteredRepositories' = filteredRepositories]_vars
    /\ [](lHist # <<>> => (OtherViewer(lHist[1]) =>
            /\ lpc = "failed"
            /\ lOut.kind = "IdentityMismatch"
            /\ Len(lHist) = 1
            /\ lLog = <<RepoRequest(NullCursor)>>
            /\ repositories = <<>>))

\* The first page listed the repositories of another viewer, one of them with
\* more languages to fetch, and the call failed on it
C11_Witness ==
    /\ lpc = "failed"
    /\ lOut.kind = "IdentityMismatch"
    /\ Len(lHist) = 1
    /\ lHist[1].data.login = "bob"
    /\ lArgs.username = "alice"
    /\ lHist[1].data.nodes # <<>>
    /\ lHist[1].data.nodes[1].languages.hasNextPage
    /\ repositories = <<>>
    /\ Len(lLog) = 1

\* C12: a response whose status is not OK fails the call with the transport
\* failure itself, in fetchContributionCalendar as in fetchLanguageStats: the
\* body is not read, so the failure is neither the not-found error nor a
\* GraphQL error (nor a parse error), and nothing is returned.
C12_HttpFailureSurfaced ==
    /\ (cpc \in {"done", "failed"} /\ cLog # <<>> /\ ~cResp.ok)
        => (cOut.status = "failed" /\ cOut.kind \in {"HttpError", "NetworkError"})
    /\ (lpc \in {"done", "failed"} /\ lHist # <<>>
         /\ LastAnswer(lHist).transport = "httpError")
        => lOut = Failure("HttpError", NoMessage)

RECURSIVE SumField(_, _)
SumField(list, field) ==
    IF list = <<>> THEN 0 ELSE list[1][field] + SumField(Tail(list), field)

\* The percentages of the languages, fractions over totalBytes
Numerators(languages) == [i \in 1..Len(languages) |-> languages[i].percentage]

\* C13: in every non-empty result of fetchLanguageStats totalBytes is positive
\* and the sum of the bytes of the languages, the percentage of each language
\* is the fraction 100 * bytes / totalBytes, which lies in 0..100, and the
\* percentages sum to exactly 100 (the fractions are exact here; the code's
\* doubles differ from them by rounding only).
C13_PercentagesSumTo100 ==
    (lpc = "done" /\ lOut.value.languages # <<>>) =>
        LET languages == lOut.value.languages
            totalBytes == lOut.value.totalBytes
        IN  /\ totalBytes > 0
            /\ SumField(languages, "bytes") = totalBytes
            /\ \A i \in 1..Len(languages) :
                    /\ languages[i].percentage.den = totalBytes
                    /\ languages[i].percentage.num = 100 * languages[i].bytes
                    /\ 0 <= languages[i].percentage.num
                    /\ languages[i].percentage.num <= 100 * totalBytes
            /\ SumField(Numerators(languages), "num") = 100 * totalBytes

\* Two languages share the bytes unevenly, neither percentage being whole
C13_Witness ==
    /\ lpc = "done"
    /\ Len(lOut.value.languages) = 2
    /\ lOut.value.totalBytes = 7
    /\ lOut.value.languages[1].bytes = 6
    /\ lOut.value.languages[2].bytes = 1
    /\ lOut.value.languages[1].percentage = [num |-> 600, den |-> 7]

RECURSIVE EdgeNames(_)
\* The language names of the edges of a repository list, in repository order
\* and edge order
EdgeNames(repos) ==
    IF repos = <<>> THEN <<>>
    ELSE [i \in 1..Len(repos[1].languages.edges) |->
            repos[1].languages.edges[i].node.name] \o EdgeNames(Tail(repos))

FirstSeen(names, name) ==
    CHOOSE i \in 1..Len(names) :
        /\ names[i] = name
        /\ \A j \in 1..(i - 1) : names[j] # name

\* a.num / a.den > b.num / b.den, for positive denominators
Greater(a, b) == a.num * b.den > b.num * a.den

\* C14: the languages returned are the names met while aggregating, each
\* once; a language never follows one of smaller percentage, and of two
\* languages of equal percentage the one met first (in repository order, then
\* edge order) comes first.
C14_SortedStable ==
    (lpc = "done" /\ lOut.value.languages # <<>>) =>
        LET languages == lOut.value.languages
            names == EdgeNames(filteredRepositories)
        IN  /\ {languages[i].language : i \in 1..Len(languages)}
                    = {names[k] : k \in 1..Len(names)}
            /\ \A i, j \in 1..Len(languages) :
                    i < j =>
                        /\ languages[i].language # languages[j].language
                        /\ ~Greater(languages[j].percentage, languages[i].percentage)
                        /\ ~Greater(languages[i].percentage, languages[j].percentage)
                            => FirstSeen(names, languages[i].language)
                                < FirstSeen(names, languages[j].language)

\* Go leads with 4 bytes; TypeScript and Rust tie with 3 and stay in the order
\* they were met
C14_Witness ==
    /\ lpc = "done"
    /\ Len(lOut.value.languages) = 3
    /\ lOut.value.languages[1].language = "Go"
    /\ lOut.value.languages[2].language = "TypeScript"
    /\ lOut.value.languages[3].language = "Rust"
    /\ lOut.value.languages[2].bytes = lOut.value.languages[3].bytes
    /\ EdgeNames(filteredRepositories) = <<"Go", "TypeScript", "Rust", "Go">>

RECURSIVE EdgeSizes(_)
\* The sizes of the edges of a repository list
EdgeSizes(repos) ==
    IF repos = <<>> THEN <<>>
    ELSE [i \in 1..Len(repos[1].languages.edges) |->
            repos[1].languages.edges[i].size] \o EdgeSizes(Tail(repos))

\* C15 as stated: the result has languages = [] and totalBytes = 0 exactly
\* when no aggregated repository has a language edge.
C15_EmptyIffNoEdges ==
    lpc = "done" =>
        ((lOut.value.languages = <<>> /\ lOut.value.totalBytes = 0)
            <=> EdgeNames(filteredRepositories) = <<>>)

\* C15 as amended: fetchLanguageStats returns (no division by zero), with
\* languages = [] exactly when totalBytes = 0, which is exactly when every
\* language edge of the aggregated repositories has size 0: so when no
\* aggregated repository has a language edge, and also when the only edges
\* there are have size 0; in every other result each percentage has the
\* positive divisor totalBytes.
C15_EmptyIffNoBytes ==
    lpc = "done" =>
        LET sizes == EdgeSizes(filteredRepositories)
            noBytes == \A k \in 1..Len(sizes) : sizes[k] = 0
        IN  /\ lOut.status = "ok"
            /\ (lOut.value.totalBytes = 0) <=> noBytes
            /\ (lOut.value.languages = <<>>) <=> noBytes
            /\ sizes = <<>> =>
                    (lOut.value.languages = <<>> /\ lOut.value.totalBytes = 0)
            /\ \A i \in 1..Len(lOut.value.languages) :
                    lOut.value.languages[i].percentage.den > 0

\* Two repositories were aggregated, neither with a language edge
C15_Witness ==
    /\ lpc = "done"
    /\ Len(filteredRepositories) = 2
    /\ EdgeNames(filteredRepositories) = <<>>
    /\ lOut.status = "ok"
    /\ lOut.value.languages = <<>>
    /\ lOut.value.totalBytes = 0

\* C16: when fetchLanguageStats has returned, getTopLanguages around the same
\* call, with a limit >= 0 or with none (then 10), has returned the first
\* min(limit, n) of the n languages of that result, in the same order; when
\* fetchLanguageStats has failed, getTopLanguages has failed with the same
\* failure; it has done neither before.
C16_TopIsPrefix ==
    /\ (lpc = "done" /\ (limit.given => limit.n >= 0)) =>
            LET languages == lOut.value.languages
                k == IF limit.given THEN limit.n ELSE 10
            IN  /\ tOut.status = "ok"
                /\ Len(tOut.value) = (IF k < Len(languages) THEN k ELSE Len(languages))
                /\ \A i \in 1..Len(tOut.value) : tOut.value[i] = languages[i]
    /\ lpc = "failed" => (lOut.status = "failed" /\ tOut = lOut)
    /\ lpc \notin {"done", "failed"} => tOut = Pending
    /\ (tOut.status = "failed") <=> (lOut.status = "failed")

\* Of three languages the top two were asked for and returned
C16_Witness ==
    /\ lpc = "done"
    /\ limit = [given |-> TRUE, n |-> 2]
    /\ Len(lOut.value.languages) = 3
    /\ tOut.status = "ok"
    /\ tOut.value = <<lOut.value.languages[1], lOut.value.languages[2]>>

RECURSIVE HowMany(_, _)
\* How many repositories of a list have an attribute
HowMany(repos, attribute) ==
    IF repos = <<>> THEN 0
    ELSE (IF repos[1][attribute] THEN 1 ELSE 0) + HowMany(Tail(repos), attribute)

\* What the counts of a repository list have to be
CountsOf(counts, repos) ==
    /\ counts.total = Len(repos)
    /\ counts.private = HowMany(repos, "isPrivate")
    /\ counts.forks = HowMany(repos, "isFork")
    /\ counts.public + counts.private = counts.total
    /\ counts.forks + counts.nonForks = counts.total
    /\ counts.public >= 0
    /\ counts.nonForks >= 0

\* C17: in a result of fetchLanguageStats repoCounts are the counts of the
\* fetched list and filteredRepoCounts the counts of the filtered list: total
\* the length, private the number of private repositories, forks the number
\* of forks, public + private = total and forks + nonForks = total.
C17_RepoCounts ==
    lpc = "done" =>
        /\ CountsOf(lOut.value.repoCounts, repositories)
        /\ CountsOf(lOut.value.filteredRepoCounts, filteredRepositories)

\* The ten repositories, forks included and private excluded: the counts of
\* the two lists differ
C17_Witness ==
    /\ lpc = "done"
    /\ repositories = TenRepositories
    /\ lArgs.options = [includeForks |-> "yes", includePrivate |-> "absent"]
    /\ lOut.value.repoCounts =
            [total |-> 10, public |-> 8, private |-> 2, forks |-> 3, nonForks |-> 7]
    /\ lOut.value.filteredRepoCounts =
            [total |-> 8, public |-> 8, private |-> 0, forks |-> 2, nonForks |-> 6]

\* C18: whenever ContributionGraph ends up without calendar data it has
\* returned the inline error message and has not thrown: when no calendar
\* was passed and the username or the token is missing (no fetch is issued),
\* and when its fetch reported that the user or the contribution data is
\* absent; when a calendar was passed, it is rendered and no fetch is issued.
C18_MissingDataRendersError ==
    /\ (gpc \in {"returned", "threw"} /\ ~gProps.calendar
         /\ ~(gProps.username /\ gProps.githubToken))
        => (gOut = InlineError /\ cLog = <<>>)
    /\ (gpc \in {"returned", "threw"} /\ cOut.status = "failed"
         /\ cOut.kind = "NotFound")
        => (gpc = "returned" /\ gOut = InlineError)
    /\ (gpc # "idle" /\ gProps.calendar)
        => (gOut = GraphView(PassedCalendar) /\ cLog = <<>>)

\* The repositories as the first page listed them
InitialNodes == lHist[1].data.nodes

LangRequests == {i \in 1..Len(lLog) : lLog[i].query = "RepoLanguages"}

\* The language-page requests for the k-th repository
RequestsFor(k) ==
    {i \in LangRequests :
        lLog[i].name = InitialNodes[k].name /\ lLog[i].owner = InitialNodes[k].owner}

\* Answer i has arrived and is an error-free language page
PageArrived(i) == i <= Len(lHist) /\ ~Abnormal(lHist[i])

RECURSIVE ArrivedEdges(_, _)
\* The edges of the language pages of the k-th repository, in arrival order,
\* from answer i on
ArrivedEdges(k, i) ==
    IF i > Len(lHist) THEN <<>>
    ELSE (IF i \in RequestsFor(k) /\ PageArrived(i) THEN lHist[i].data.edges
          ELSE <<>>) \o ArrivedEdges(k, i + 1)

\* C19: with the repositories listed on the first page, every language-page
\* request is for a repository whose initial page reported another page; the
\* first request for a repository carries the endCursor of its initial page,
\* each later one the endCursor of the previous answer, which reported
\* another page; an answer reporting another page is followed by the next
\* request for the same repository, an answer reporting none is not; once
\* that answer has come the repository's edges are the initial ones followed
\* by the edges of its pages in arrival order.  A repository whose initial
\* page reports no other page gets no request and keeps its edges.
C19_SubPagination ==
    (lHist # <<>> /\ ~Abnormal(lHist[1])) =>
        /\ \A i \in LangRequests :
                \E k \in 1..Len(InitialNodes) :
                    i \in RequestsFor(k) /\ InitialNodes[k].languages.hasNextPage
        /\ \A k \in 1..Len(InitialNodes) :
                LET first == InitialNodes[k].languages
                IN  /\ ~first.hasNextPage =>
                            /\ RequestsFor(k) = {}
                            /\ repositories[k].languages.edges = first.edges
                    /\ \A i \in RequestsFor(k) :
                            /\ lLog[i].cursor =
                                    IF (i - 1) \in RequestsFor(k)
                                    THEN lHist[i - 1].data.endCursor
                                    ELSE first.endCursor
                            /\ (i - 1) \in RequestsFor(k) =>
                                    (PageArrived(i - 1) /\ lHist[i - 1].data.hasNextPage)
                            /\ PageArrived(i) =>
                                    (lHist[i].data.hasNextPage
                                        <=> (i + 1) \in RequestsFor(k))
                    /\ (\E i \in RequestsFor(k) :
                            PageArrived(i) /\ ~lHist[i].data.hasNextPage) =>
                            repositories[k].languages.edges
                                = first.edges \o ArrivedEdges(k, 1)
                    /\ (lpc = "done" /\ first.hasNextPage) => RequestsFor(k) # {}

\* The first repository had two further language pages, the second none
C19_Witness ==
    /\ lpc = "done"
    /\ Len(lHist) = 3
    /\ Len(InitialNodes) = 2
    /\ InitialNodes[1].languages.hasNextPage
    /\ ~InitialNodes[2].languages.hasNextPage
    /\ RequestsFor(1) = {2, 3}
    /\ lLog[2].cursor = "c1"
    /\ lLog[3].cursor = "c2"
    /\ repositories[1].languages.edges = FirstEdges \o SubEdges(1) \o SubEdges(2)
    /\ repositories[2].languages.edges = FirstEdges

RECURSIVE SizeOfName(_, _, _)
\* The sum of the sizes of the edges that carry a name, over the names and
\* the sizes of the edges of a repository list
SizeOfName(names, sizes, name) ==
    IF names = <<>> THEN 0
    ELSE (IF names[1] = name THEN sizes[1] ELSE 0)
            + SizeOfName(Tail(names), Tail(sizes), name)

RECURSIVE SumSeq(_)
SumSeq(sizes) == IF sizes = <<>> THEN 0 ELSE sizes[1] + SumSeq(Tail(sizes))

\* C21: for the repositories given to the aggregator, the map has one entry
\* for each name that occurs in an edge and for no other name, the bytes of
\* an entry are the sum of the sizes of all the edges of that name, and the
\* totalBytes of the result is the sum of the sizes of all the edges, which
\* is the sum of the bytes of the languages returned, each of them carrying
\* the bytes of its entry.
C21_BytesPerLanguage ==
    lpc = "done" =>
        LET names == EdgeNames(filteredRepositories)
            sizes == EdgeSizes(filteredRepositories)
            languageMap == aggregateLanguageStats(filteredRepositories)
            languages == lOut.value.languages
        IN  /\ {languageMap[i].name : i \in 1..Len(languageMap)}
                    = {names[k] : k \in 1..Len(names)}
            /\ \A i, j \in 1..Len(languageMap) :
                    i # j => languageMap[i].name # languageMap[j].name
            /\ \A i \in 1..Len(languageMap) :
                    languageMap[i].bytes
                        = SizeOfName(names, sizes, languageMap[i].name)
            /\ lOut.value.totalBytes = SumSeq(sizes)
            /\ lOut.value.totalBytes = SumField(languages, "bytes")
            /\ \A i \in 1..Len(languages) :
                    languages[i].bytes
                        = SizeOfName(names, sizes, languages[i].language)

\* Go has 2 + 1 bytes in the first repository and 1 byte in the second,
\* TypeScript 3 bytes in the second
C21_Witness ==
    /\ lpc = "done"
    /\ EdgeNames(filteredRepositories) = <<"Go", "Go", "Go", "TypeScript">>
    /\ EdgeSizes(filteredRepositories) = <<2, 1, 1, 3>>
    /\ lOut.value.totalBytes = 7
    /\ \E i \in 1..Len(lOut.value.languages) :
            /\ lOut.value.languages[i].language = "Go"
            /\ lOut.value.languages[i].bytes = 4

\* The identifiers of the repositories of a list that have an edge of a name:
\* owner and name, the owner empty when it is unknown
ReposWith(repos, name) ==
    {<<repos[k].owner, repos[k].name>> :
        k \in {n \in 1..Len(repos) :
                 \E e \in 1..Len(repos[n].languages.edges) :
                    repos[n].languages.edges[e].node.name = name}}

\* C22: the repository count of every language of the result, and the set of
\* every entry of the map, is the set of the identifiers of the aggregated
\* repositories that have at least one edge of that name: a repository with
\* several such edges is counted once, one without edges for no language.
C22_ReposPerLanguage ==
    lpc = "done" =>
        LET languageMap == aggregateLanguageStats(filteredRepositories)
            languages == lOut.value.languages
        IN  /\ \A i \in 1..Len(languageMap) :
                    languageMap[i].repos
                        = ReposWith(filteredRepositories, languageMap[i].name)
            /\ \A i \in 1..Len(languages) :
                    languages[i].repos
                        = Cardinality(ReposWith(filteredRepositories,
                                                languages[i].language))

\* Two repositories are aggregated, the first with two Go edges, the second
\* with one: Go counts two repositories
C22_Witness ==
    /\ lpc = "done"
    /\ Len(filteredRepositories) = 2
    /\ EdgeNames(filteredRepositories) = <<"Go", "Go", "Go", "TypeScript">>
    /\ \E i \in 1..Len(lOut.value.languages) :
            /\ lOut.value.languages[i].language = "Go"
            /\ lOut.value.languages[i].repos = 2

\* Of three aggregated repositories the first has no known owner and the
\* second no edges: TypeScript counts the first and the third
C22_WitnessOwnerless ==
    /\ lpc = "done"
    /\ filteredRepositories = OwnerlessRepositories
    /\ lOut.value.languages[1].repos = 2

RECURSIVE EdgeColors(_)
\* The colors of the edges of a repository list, in traversal order
EdgeColors(repos) ==
    IF repos = <<>> THEN <<>>
    ELSE [i \in 1..Len(repos[1].languages.edges) |->
            repos[1].languages.edges[i].node.color] \o EdgeColors(Tail(repos))

\* The color of the first edge of a name that carries one, "" if none does
FirstColor(names, colors, name) ==
    LET carrying == {k \in 1..Len(names) : names[k] = name /\ colors[k] # ""}
    IN  IF carrying = {} THEN ""
        ELSE colors[CHOOSE k \in carrying : \A other \in carrying : k <= other]

\* C23: the color of every entry of the map, and of every language returned,
\* is the color of the first edge of that name, in traversal order, that
\* carries a color, whatever colors the later edges carry; it is absent when
\* no edge of that name carries one.
C23_FirstColorKept ==
    lpc = "done" =>
        LET names == EdgeNames(filteredRepositories)
            colors == EdgeColors(filteredRepositories)
            languageMap == aggregateLanguageStats(filteredRepositories)
            languages == lOut.value.languages
        IN  /\ \A i \in 1..Len(languageMap) :
                    languageMap[i].color
                        = FirstColor(names, colors, languageMap[i].name)
            /\ \A i \in 1..Len(languages) :
                    languages[i].color
                        = FirstColor(names, colors, languages[i].language)

\* Go is met without a color, then with #375eab, then with #00ADD8, and keeps
\* #375eab; TypeScript is never met with a color
C23_Witness ==
    /\ lpc = "done"
    /\ EdgeNames(filteredRepositories) = <<"Go", "Go", "Go", "TypeScript">>
    /\ EdgeColors(filteredRepositories) = <<"", "#375eab", "#00ADD8", "">>
    /\ \E i \in 1..Len(lOut.value.languages) :
            /\ lOut.value.languages[i].language = "Go"
            /\ lOut.value.languages[i].color = "#375eab"
    /\ \E i \in 1..Len(lOut.value.languages) :
            /\ lOut.value.languages[i].language = "TypeScript"
            /\ lOut.value.languages[i].color = ""

\* The identifiers of the repositories of a list, in order
Identifiers(repos) == [i \in 1..Len(repos) |-> <<repos[i].owner, repos[i].name>>]

\* C24: against a server that honours the privacy argument, for every
\* population and every combination of options, the variant that asks for
\* the public repositories when includePrivate is false and filters every
\* page ends with the same repositories, in the same order, as the variant
\* that fetches the repositories unfiltered and filters the list once.
C24_SameMembership ==
    (lpc = "done" /\ upc = "done") =>
        /\ uOut = Returned(uRepositories)
        /\ Identifiers(uRepositories) = Identifiers(filteredRepositories)
        /\ \A i \in 1..Len(uRepositories) :
                /\ uRepositories[i].isFork = filteredRepositories[i].isFork
                /\ uRepositories[i].isPrivate = filteredRepositories[i].isPrivate

\* Of four repositories on two unfiltered pages (a private one, a fork, two
\* public ones) the server lists three on request of the public ones, on
\* two pages of other contents, and both variants end with the last two
C24_Witness ==
    /\ lpc = "done"
    /\ upc = "done"
    /\ Len(population) = 4
    /\ population[1].isPrivate /\ ~population[1].isFork
    /\ population[2].isFork /\ ~population[2].isPrivate
    /\ uLog = <<UserRequest(NullCursor, "PUBLIC"), UserRequest("c1", "PUBLIC")>>
    /\ Names(uRepositories) = <<3, 4>>
    /\ Names(filteredRepositories) = <<3, 4>>

\* With private repositories included the server is asked for all of them
C24_WitnessPrivate ==
    /\ lpc = "done"
    /\ upc = "done"
    /\ uLog[1].privacy = "null"
    /\ \E i \in 1..Len(uRepositories) : uRepositories[i].isPrivate

\* The cells of the rendered calendar whose day has a date
DatedCells ==
    UNION {{<<w, d>> : d \in {n \in 1..Len(viewCalendar.weeks[w].days) :
                                viewCalendar.weeks[w].days[n].date # EmptyDate}} :
           w \in 1..Len(viewCalendar.weeks)}

\* What the state is when a cell is hovered: its day and its position
HoveringOver(w, d) ==
    [set |-> TRUE,
     day |-> viewCalendar.weeks[w].days[d],
     x |-> (w - 1) * 15 + 30 + 6,
     y |-> (d - 1) * 15]

\* C25: the hover state is null or holds a dated day of the calendar with the
\* position of its cell; once the pointer has entered the cell of a dated
\* day, whatever the state was, the state holds that day and that position;
\* once the pointer has left, whatever the state was, the state is null;
\* the state never holds an undated day; in every state of the rendered
\* view the pointer can leave and can enter every cell; and no step that
\* changes the hover state changes the calendar or the month labels.
C25_HoverStates ==
    /\ [](\/ hovered = NotHovered
          \/ \E c \in DatedCells : hovered = HoveringOver(c[1], c[2]))
    /\ []((pointer.over /\ <<pointer.week, pointer.day>> \in DatedCells)
            => hovered = HoveringOver(pointer.week, pointer.day))
    /\ [](~pointer.over => hovered = NotHovered)
    /\ [](monthLabels.status = "ok" =>
            /\ ENABLED MouseLeave
            /\ \A w \in 1..Len(viewCalendar.weeks) :
                    \A d \in 1..Len(viewCalendar.weeks[w].days) :
                        ENABLED MouseEnter(w, d))
    /\ [][hovered' # hovered =>
            (viewCalendar' = viewCalendar /\ monthLabels' = monthLabels)]_vars

\* The cell of the third week is hovered
C25_Witness ==
    /\ pointer = [over |-> TRUE, week |-> 3, day |-> 1]
    /\ hovered = [set |-> TRUE, day |-> ViewDay(DateOf(1, 8)), x |-> 66, y |-> 0]

\* The pointer went from the second cell of the first week, where the state
\* held that day, to the undated first cell of the week, entered without a
\* leave in between: the state still holds the day of the second cell
C25_WitnessUndated ==
    /\ pointer = [over |-> TRUE, week |-> 1, day |-> 1]
    /\ viewCalendar.weeks[1].days[1].date = EmptyDate
    /\ hovered = [set |-> TRUE, day |-> ViewDay(DateOf(0, 26)), x |-> 36, y |-> 15]

\* A calendar as the fetch delivers it: every week has days, every day a date
DatedThroughout(calendar) ==
    \A w \in 1..Len(calendar.weeks) :
        /\ calendar.weeks[w].days # <<>>
        /\ \A d \in 1..Len(calendar.weeks[w].days) :
                calendar.weeks[w].days[d].date # EmptyDate

\* The month of the date of the first day of the week of an index (from 0)
FirstDayMonth(weekIndex) == viewCalendar.weeks[weekIndex + 1].days[1].date.month

\* The label of the last label emitted for a week before the week of an
\* index, "" when there is none
LabelBefore(labels, weekIndex) ==
    LET before == {i \in 1..Len(labels) : labels[i].weekIndex < weekIndex}
    IN  IF before = {} THEN ""
        ELSE labels[CHOOSE i \in before : \A j \in before : j <= i].label

\* C26: for a calendar whose weeks all have days and whose days all have
\* dates, getMonthLabels has a label for a week exactly when the month of
\* the date of the week's first day is not the month of the label emitted
\* last before it, and that label names that month and that week; the first
\* week has a label; the week indexes of the labels increase strictly; two
\* consecutive labels never name the same month.
C26_MonthLabels ==
    (monthLabels.status = "ok" /\ DatedThroughout(viewCalendar)) =>
        LET weeks == viewCalendar.weeks
            labels == monthLabels.value
        IN  /\ \A k \in 0..(Len(weeks) - 1) :
                    (\E i \in 1..Len(labels) : labels[i].weekIndex = k)
                        <=> MONTHS[FirstDayMonth(k) + 1] # LabelBefore(labels, k)
            /\ \A i \in 1..Len(labels) :
                    /\ labels[i].weekIndex \in 0..(Len(weeks) - 1)
                    /\ labels[i].label = MONTHS[FirstDayMonth(labels[i].weekIndex) + 1]
            /\ weeks # <<>> => (labels # <<>> /\ labels[1].weekIndex = 0)
            /\ \A i \in 1..(Len(labels) - 1) :
                    /\ labels[i].weekIndex < labels[i + 1].weekIndex
                    /\ labels[i].label # labels[i + 1].label

RECURSIVE RunAlone(_, _)
\* A call run alone from a state on, against a sequence of answers
RunAlone(st, answers) ==
    IF answers = <<>> THEN st
    ELSE RunAlone(ResumeCall(st, answers[1]), Tail(answers))

\* The state a call was in at its first await
StartedAs(st) ==
    IF st.kind = "stats" THEN StartStatsCall(st.args.username, st.args.options)
    ELSE StartCalendarCall(st.args.start, st.args.end, st.args.now)

C27_WitnessCalendar ==
    /\ calls[1].kind = "calendar"
    /\ calls[1].pc = "done"
    /\ calls[2].kind = "stats"
    /\ calls[2].pc = "awaitRepoPage"
    /\ Len(calls[2].repositories) = 1

C28_WitnessSecondPage ==
    /\ lArgs.options = [includeForks |-> "yes", includePrivate |-> "yes"]
    /\ Len(lHist) = 2
    /\ lHist[1].data.login = "alice"
    /\ lHist[2].data.login = "bob"
    /\ lOut = Failure("IdentityMismatch", NoMessage)

\* The repositories of a list that the options of the call keep
WantedOf(repos) ==
    LET Keep(repo) == Wanted(repo, lArgs.options)
    IN  SelectSeq(repos, Keep)

\* C29: the language pages are fetched for the list as fetched, before the
\* filter: while a language page is awaited nothing is filtered yet; a call
\* that has returned has requested the language pages of every repository
\* with truncated languages, those the options exclude too; an answer to a
\* language-page request that is a transport failure or carries errors
\* fails the call, whether or not the options keep the repository at hand;
\* and the result counts the bytes of the edges of the kept repositories
\* only.
C29_SubPaginationBeforeFilter ==
    /\ [](lpc = "awaitLangPage" => (filteredRepositories = <<>> /\ lOut = Pending))
    /\ [](lpc = "done" =>
            \A i \in 1..Len(repositories) :
                repositories[i].languages.hasNextPage =>
                    \E k \in LangRequests :
                        lLog[k] = LangRequest(repositories[i].owner,
                                              repositories[i].name,
                                              repositories[i].languages.endCursor))
    /\ [][(/\ lpc = "awaitLangPage"
           /\ Len(lHist') = Len(lHist) + 1
           /\ \/ LastAnswer(lHist').transport # "json"
              \/ LastAnswer(lHist').errors # <<>>)
          => /\ lpc' = "failed"
             /\ lOut'.status = "failed"
             /\ tOut' = lOut'
             /\ filteredRepositories' = <<>>]_vars
    /\ [](lpc = "done" =>
            /\ filteredRepositories = WantedOf(repositories)
            /\ lOut.value.totalBytes = SumSeq(EdgeSizes(WantedOf(repositories)))
            /\ lOut.value.totalRepos = Len(WantedOf(repositories)))

\* Called with the default options, the call has failed on the language
\* page of a fork, which its filter would have excluded
C29_Witness ==
    /\ lpc = "failed"
    /\ lArgs.options = [includeForks |-> "absent", includePrivate |-> "absent"]
    /\ repoIdx > 0
    /\ repositories[repoIdx].isFork
    /\ lLog[Len(lLog)] = LangRequest(repositories[repoIdx].owner,
                                     repositories[repoIdx].name, "c1")
    /\ Len(lHist) = Len(lLog)
    /\ LastAnswer(lHist).transport = "httpError"
    /\ lOut.kind = "HttpError"

\* Called with the default options, the call has fetched the second language
\* page of a fork and returned statistics without the fork's edges
C29_WitnessExcluded ==
    /\ lpc = "done"
    /\ lArgs.options = [includeForks |-> "absent", includePrivate |-> "absent"]
    /\ Len(repositories) = 2
    /\ repositories[2].isFork
    /\ Len(repositories[2].languages.edges) = 2
    /\ Len(filteredRepositories) = 1
    /\ lOut.value.totalBytes = 3

====
